---- MODULE Spec2Model ----
(***************************************************************************)
(* A model of the client-side connection layer of acousticar:              *)
(*   - WebSocketProvider (context/WebSocketContext): the telemetry         *)
(*     (audio-stream) socket with its reconnect timer, the control socket, *)
(*     the outbound commands and the heartbeat interval;                   *)
(*   - AudioContextProvider (context/AudioContext): the reducer-backed     *)
(*     Application State Store and the provider's own audio-stream socket. *)
(* Every browser task (a socket event, a timer firing, a call made by a    *)
(* consumer, an effect cleanup) is one action.                             *)
(***************************************************************************)
EXTENDS Integers, Sequences, FiniteSets, TLC

(***************************************************************************)
(* Bounds of the model.                                                    *)
(***************************************************************************)
\* telemetry sockets WebSocketProvider may create in one run
MaxAudioSockets == 7
\* audio-stream sockets AudioContextProvider may create in one run
MaxStreamSockets == 3
\* file reads ProfileSettings may have in flight at a time
MaxReads == 2

(***************************************************************************)
(* Program constants.                                                      *)
(***************************************************************************)
maxReconnectAttempts == 5
baseDelay == 1000
capDelay == 30000
\* the value of an empty ref (useRef(null)); socket and timer ids start at 1
NULL == 0

VARIABLES
    \* ---- browser objects ----
    sockets,              \* every WebSocket constructed, by id: [chan, readyState]
    timers,               \* pending setTimeout timers: [id, delay, callback]
    nextTimerId,          \* the handle the next setTimeout returns
    \* ---- WebSocketProvider ----
    mounted,              \* the provider is mounted (its effects are live)
    isConnected,          \* useState(false): control channel flag
    connectionStatus,     \* useState('disconnected'): telemetry channel status
    activeConnections,    \* useState(0)
    lastMessage,          \* useState(null): last parsed telemetry message
    audioWsRef,           \* useRef(null)
    controlWsRef,         \* useRef(null)
    reconnectTimeoutRef,  \* useRef(null): handle of the last reconnect timer
    reconnectAttempts,    \* useRef(0)
    pingIntervalActive,   \* the 30 s setInterval of the ping effect is set
    \* ---- AudioContextProvider ----
    state,                \* useReducer(audioReducer, initialState): the Store
    acpMounted,           \* the provider is mounted
    acpWs,                \* const ws = connectWebSocket(): the effect's own socket
    \* ---- ProfileSettings (the preferences page) ----
    profileSettingsMounted, \* the page is the route on screen
    preferences,          \* useState({...}): the editable preferences
    profileName,          \* useState('My Profile')
    isDirty,              \* useState(false)
    pickerOpen,           \* the file picker of the hidden input is open
    reading,              \* the FileReader reads Import has started that have not
                          \* loaded yet: [file, orphan]
    \* ---- EQControl and SoundstageControl (pages) ----
    eqControl,            \* EQControl's state: isEQEnabled, selectedPreset, eqProfile
    soundstageControl,    \* SoundstageControl's state: isSoundstageEnabled,
                          \* selectedPreset, soundstageSettings
    \* ---- what the last task did (outputs of one step) ----
    lastEvent,            \* the task that ran last: [kind, chan, sock, arg]
    sent,                 \* frames handed to WebSocket.send by the last task
    toasts,               \* toast notifications raised by the last task
    console,              \* console lines written by the last task: <<level, text>>
    thrown,               \* the last task ended with an uncaught exception
    attemptsBefore,       \* reconnectAttempts when the last task started
    stateBefore           \* the Store when the last task started

browserVars == <<sockets, timers, nextTimerId>>
wsVars == <<mounted, isConnected, connectionStatus, activeConnections, lastMessage,
            audioWsRef, controlWsRef, reconnectTimeoutRef, reconnectAttempts,
            pingIntervalActive>>
acpVars == <<state, acpMounted, acpWs>>
pageVars == <<profileSettingsMounted, preferences, profileName, isDirty,
              pickerOpen, reading>>
controlVars == <<eqControl, soundstageControl>>
outVars == <<lastEvent, sent, toasts, console, thrown, attemptsBefore, stateBefore>>
vars == <<browserVars, wsVars, acpVars, pageVars, controlVars, outVars>>

----------------------------------------------------------------------------
(***************************************************************************)
(* Values.                                                                 *)
(***************************************************************************)
Min(a, b) == IF a <= b THEN a ELSE b

RECURSIVE Pow2(_)
Pow2(n) == IF n = 0 THEN 1 ELSE 2 * Pow2(n - 1)

NoArg == [none |-> TRUE]
\* the state of a page that is not on screen
Unmounted == [unmounted |-> TRUE]
Undefined == [undefined |-> TRUE]

Ev(kind, chan, sock, arg) == [kind |-> kind, chan |-> chan, sock |-> sock, arg |-> arg]

SocketIds(chan) == {s \in DOMAIN sockets : sockets[s].chan = chan}
Live(s) == sockets[s].readyState \in {"CONNECTING", "OPEN"}
IsOpen(ref) == ref # NULL /\ sockets[ref].readyState = "OPEN"

(***************************************************************************)
(* React: a state setter called after the component has unmounted is       *)
(* dropped.                                                                *)
(***************************************************************************)
SetState(cur, new) == IF mounted THEN new ELSE cur

(***************************************************************************)
(* Inbound frames.  A frame is either not JSON (wf = FALSE: JSON.parse     *)
(* throws) or parses to `value`: the JSON null, or an envelope             *)
(* {type, data?, message?}.                                                *)
(***************************************************************************)
JsonNull == [null |-> TRUE]
Envelope(type, data) == [type |-> type, data |-> data, message |-> "boom"]
Frame(value) == [wf |-> TRUE, value |-> value]
Malformed == [wf |-> FALSE]

AudioTypes == {"analysis_result", "processed_audio", "optimized_audio", "error"}
ControlTypes == {"preferences_updated", "eq_enabled", "eq_disabled",
                 "soundstage_enabled", "soundstage_disabled", "connection_info",
                 "error"}
\* tags no dispatch table knows
UnknownTypes == {"telemetry_v2"}

AudioInbound ==
    {Malformed, Frame(JsonNull)}
        \cup {Frame(Envelope(t, Undefined)) : t \in AudioTypes \cup UnknownTypes}
        \cup {Frame(Envelope("eq_enabled", Undefined))}

ControlInbound ==
    {Malformed, Frame(JsonNull)}
        \cup {Frame(Envelope(t, Undefined)) : t \in ControlTypes \cup UnknownTypes}
        \cup {Frame(Envelope("connection_info", [active_connections |-> 2]))}
        \cup {Frame(Envelope("analysis_result", [active_connections |-> 2]))}

IsEnvelope(v) == v # JsonNull

(***************************************************************************)
(* Payloads.  Fractional scalars are kept as integers: the preference and  *)
(* soundstage scalars in hundredths (0.5 is 50), gains in tenths of a dB   *)
(* (the sliders' step), frequencies in tenths of a Hz (31.5 Hz is 315).    *)
(***************************************************************************)
initialUserPreferences ==
    [bass_preference |-> 0, treble_preference |-> 0, vocal_clarity |-> 0,
     soundstage_width |-> 50, height_preference |-> 50, depth_preference |-> 50,
     music_genre |-> "general", listening_environment |-> "car",
     speaker_count |-> 2, subwoofer_present |-> FALSE, amplifier_power |-> 50,
     cabin_size |-> "medium"]

frequencyBands ==
    <<200, 250, 315, 400, 500, 630, 800, 1000, 1250, 1600, 2000, 2500, 3150, 4000,
      5000, 6300, 8000, 10000, 12500, 16000, 20000, 25000, 31500, 40000, 50000,
      63000, 80000, 100000, 125000, 160000, 200000>>

\* new Array(n).fill(v)
ArrayFill(n, v) == [i \in 1..n |-> v]

\* the profile with the default preferences in place of the current ones
EqProfileOfDefaultPreferences(gains, prefs) ==
    [name |-> "EQ_date",
     frequency_bands |-> frequencyBands,
     gains |-> gains,
     q_factors |-> ArrayFill(31, 1),
     filter_types |-> ArrayFill(31, "peaking"),
     user_preferences |-> initialUserPreferences,
     acoustic_compensation |-> <<>>]

\* the profile object literal of handleToggleEQ
EqProfileOf(gains, prefs) ==
    [name |-> "EQ_date",
     frequency_bands |-> frequencyBands,
     gains |-> gains,
     q_factors |-> ArrayFill(31, 1),
     filter_types |-> ArrayFill(31, "peaking"),
     user_preferences |-> prefs,
     acoustic_compensation |-> <<>>]

\* the profile with the height and depth factors taken from each other
SoundstageProfileOfSwappedFactors(st) ==
    [stereo_width |-> st.stereo_width,
     center_image_strength |-> st.center_image_strength,
     depth_perception |-> st.depth_perception,
     height_perception |-> st.height_perception,
     left_right_balance |-> st.left_right_balance,
     front_back_positioning |-> st.front_back_positioning,
     spatial_coherence |-> st.spatial_coherence,
     crosstalk_compensation |-> ArrayFill(32, 0),
     hrtf_compensation |->
        [left_ear_compensation |-> ArrayFill(32, 0),
         right_ear_compensation |-> ArrayFill(32, 0),
         spatial_enhancement |->
            [width_factor |-> st.stereo_width,
             height_factor |-> st.depth_perception,
             depth_factor |-> st.height_perception]]]

\* the profile object literal of handleToggleSoundstage
SoundstageProfileOf(st) ==
    [stereo_width |-> st.stereo_width,
     center_image_strength |-> st.center_image_strength,
     depth_perception |-> st.depth_perception,
     height_perception |-> st.height_perception,
     left_right_balance |-> st.left_right_balance,
     front_back_positioning |-> st.front_back_positioning,
     spatial_coherence |-> st.spatial_coherence,
     crosstalk_compensation |-> ArrayFill(32, 0),
     hrtf_compensation |->
        [left_ear_compensation |-> ArrayFill(32, 0),
         right_ear_compensation |-> ArrayFill(32, 0),
         spatial_enhancement |->
            [width_factor |-> st.stereo_width,
             height_factor |-> st.height_perception,
             depth_factor |-> st.depth_perception]]]

initialSoundstageSettings ==
    [stereo_width |-> 50, center_image_strength |-> 50, depth_perception |-> 50,
     height_perception |-> 50, left_right_balance |-> 50,
     front_back_positioning |-> 50, spatial_coherence |-> 50]

(***************************************************************************)
(* The arguments consumers pass to the provider's methods in this model.   *)
(* The provider takes any value: the sets hold a value a page builds, one  *)
(* outside the documented ranges, and undefined.                           *)
(***************************************************************************)
FlatGains == ArrayFill(Len(frequencyBands), 0)
\* 15 dB in the first band: outside the nominal [-12, +12] dB
HotGains == [FlatGains EXCEPT ![1] = 150]

EqProfileArgs ==
    {Undefined, EqProfileOf(FlatGains, initialUserPreferences),
     EqProfileOf(HotGains, initialUserPreferences)}
PreferencesArgs ==
    {initialUserPreferences, [initialUserPreferences EXCEPT !.bass_preference = 150]}
SoundstageProfileArgs ==
    {SoundstageProfileOf(initialSoundstageSettings),
     SoundstageProfileOf([initialSoundstageSettings EXCEPT !.stereo_width = 80])}
AudioDataArgs == {Undefined, [samples |-> <<1, 2>>]}


----------------------------------------------------------------------------
(***************************************************************************)
(* WebSocketProvider: the telemetry (audio-stream) channel.                *)
(* A handler is written as the part of a step it decides: the provider's   *)
(* state and refs, the timers, and the toasts and console lines.           *)
(***************************************************************************)
controlSide == <<isConnected, controlWsRef, activeConnections>>
audioSide == <<connectionStatus, audioWsRef, lastMessage, reconnectTimeoutRef,
               reconnectAttempts, timers, nextTimerId>>

\* Math.min(1000 * Math.pow(2, reconnectAttempts.current), 30000)
ReconnectDelayAfterIncrement(attempts) == Min(baseDelay * Pow2(attempts + 1), capDelay)
ReconnectDelay(attempts) == Min(baseDelay * Pow2(attempts), capDelay)

\* new WebSocket(url): the socket starts CONNECTING
NewSocket(chan) == Append(sockets, [chan |-> chan, readyState |-> "CONNECTING"])

\* connectAudioWebSocket returning the socket without storing it in the ref
connectAudioWebSocketDropsRef ==
    /\ sockets' = NewSocket("audio")
    /\ audioWsRef' = audioWsRef
\* connectAudioWebSocket: construct the socket and store it in audioWsRef
connectAudioWebSocket ==
    /\ sockets' = NewSocket("audio")
    /\ audioWsRef' = Len(sockets) + 1

\* scheduleReconnect counting the attempt without setting the timer
scheduleReconnectSetsNoTimer ==
    /\ timers' = {t \in timers : t.id # reconnectTimeoutRef}
    /\ reconnectAttempts' = reconnectAttempts + 1
    /\ reconnectTimeoutRef' = nextTimerId
    /\ nextTimerId' = nextTimerId + 1

\* scheduleReconnect: clear the timer the ref names, compute the delay from the
\* current attempt count, count the attempt, set the new timer.
scheduleReconnect ==
    /\ timers' = {t \in timers : t.id # reconnectTimeoutRef}
                    \cup {[id |-> nextTimerId,
                           delay |-> ReconnectDelay(reconnectAttempts),
                           callback |-> "connectAudioWebSocket"]}
    /\ reconnectAttempts' = reconnectAttempts + 1
    /\ reconnectTimeoutRef' = nextTimerId
    /\ nextTimerId' = nextTimerId + 1

\* ws.onopen of the telemetry socket
AudioOnOpenNoReset ==
    /\ connectionStatus' = SetState(connectionStatus, "connected")
    /\ console' = <<<<"log", "Audio WebSocket connected">>>>
    /\ toasts' = <<>>
    /\ UNCHANGED <<reconnectAttempts, audioWsRef, lastMessage, reconnectTimeoutRef,
                   timers, nextTimerId>>
    /\ UNCHANGED controlSide
AudioOnOpen ==
    /\ connectionStatus' = SetState(connectionStatus, "connected")
    /\ reconnectAttempts' = 0
    /\ console' = <<<<"log", "Audio WebSocket connected">>>>
    /\ toasts' = <<>>
    /\ UNCHANGED <<audioWsRef, lastMessage, reconnectTimeoutRef, timers, nextTimerId>>
    /\ UNCHANGED controlSide

\* handleAudioMessage: the switch on data.type
handleAudioMessageToasts(data) ==
    IF data.type = "error" THEN <<"error: message">> ELSE <<>>
handleAudioMessageConsole(data) ==
    IF data.type \in AudioTypes THEN <<>>
    ELSE <<<<"log", "Unknown audio message type">>>>

\* ws.onmessage of the telemetry socket: parse, setLastMessage, dispatch; an
\* exception (JSON.parse of a malformed frame, .type of null) is caught and logged.
AudioOnMessage(m) ==
    /\ IF ~m.wf
       THEN /\ console' = <<<<"error", "Error parsing audio WebSocket message">>>>
            /\ toasts' = <<>>
            /\ UNCHANGED lastMessage
       ELSE /\ lastMessage' = SetState(lastMessage, m.value)
            /\ IF IsEnvelope(m.value)
               THEN /\ toasts' = handleAudioMessageToasts(m.value)
                    /\ console' = handleAudioMessageConsole(m.value)
               ELSE /\ toasts' = <<>>
                    /\ console' = <<<<"error", "Error parsing audio WebSocket message">>>>
    /\ UNCHANGED <<connectionStatus, audioWsRef, reconnectTimeoutRef,
                   reconnectAttempts, timers, nextTimerId>>
    /\ UNCHANGED controlSide

\* ws.onerror of the telemetry socket
AudioOnErrorToasts(withError) ==
    IF withError THEN <<"Audio WebSocket connection error">> ELSE <<>>
AudioOnErrorConsole(withError) ==
    IF withError THEN <<<<"error", "Audio WebSocket error">>>> ELSE <<>>

\* ws.onclose of the telemetry socket (run after onerror when the close is a
\* failure: the browser fires both events in one task)
AudioOnCloseOffByOne(withError) ==
    /\ connectionStatus' = SetState(connectionStatus, "disconnected")
    /\ audioWsRef' = NULL
    /\ console' = AudioOnErrorConsole(withError)
                    \o <<<<"log", "Audio WebSocket disconnected">>>>
    /\ IF reconnectAttempts <= maxReconnectAttempts
       THEN /\ scheduleReconnect
            /\ toasts' = AudioOnErrorToasts(withError)
       ELSE /\ toasts' = AudioOnErrorToasts(withError)
                            \o <<"Failed to reconnect to audio server">>
            /\ UNCHANGED <<timers, reconnectAttempts, reconnectTimeoutRef, nextTimerId>>
    /\ UNCHANGED lastMessage
    /\ UNCHANGED controlSide
\* ws.onclose with onerror setting a retry timer of its own
AudioOnCloseErrorRetriesToo(withError) ==
    /\ connectionStatus' = SetState(connectionStatus, "disconnected")
    /\ audioWsRef' = NULL
    /\ console' = AudioOnErrorConsole(withError)
                    \o <<<<"log", "Audio WebSocket disconnected">>>>
    /\ IF reconnectAttempts < maxReconnectAttempts
       THEN /\ timers' = {t \in timers : t.id # reconnectTimeoutRef}
                    \cup {[id |-> nextTimerId,
                           delay |-> ReconnectDelay(reconnectAttempts),
                           callback |-> "connectAudioWebSocket"]}
                    \cup (IF withError
                          THEN {[id |-> nextTimerId + 1, delay |-> baseDelay,
                                 callback |-> "connectAudioWebSocket"]}
                          ELSE {})
            /\ reconnectAttempts' = reconnectAttempts + 1
            /\ reconnectTimeoutRef' = nextTimerId
            /\ nextTimerId' = nextTimerId + 2
            /\ toasts' = AudioOnErrorToasts(withError)
       ELSE /\ toasts' = AudioOnErrorToasts(withError)
                            \o <<"Failed to reconnect to audio server">>
            /\ UNCHANGED <<timers, reconnectAttempts, reconnectTimeoutRef, nextTimerId>>
    /\ UNCHANGED lastMessage
    /\ UNCHANGED controlSide
\* ws.onclose scheduling a reconnect whatever the attempt count
AudioOnCloseNoCap(withError) ==
    /\ connectionStatus' = SetState(connectionStatus, "disconnected")
    /\ audioWsRef' = NULL
    /\ console' = AudioOnErrorConsole(withError)
                    \o <<<<"log", "Audio WebSocket disconnected">>>>
    /\ scheduleReconnect
    /\ toasts' = AudioOnErrorToasts(withError)
    /\ UNCHANGED lastMessage
    /\ UNCHANGED controlSide
AudioOnClose(withError) ==
    /\ connectionStatus' = SetState(connectionStatus, "disconnected")
    /\ audioWsRef' = NULL
    /\ console' = AudioOnErrorConsole(withError)
                    \o <<<<"log", "Audio WebSocket disconnected">>>>
    /\ IF reconnectAttempts < maxReconnectAttempts
       THEN /\ scheduleReconnect
            /\ toasts' = AudioOnErrorToasts(withError)
       ELSE /\ toasts' = AudioOnErrorToasts(withError)
                            \o <<"Failed to reconnect to audio server">>
            /\ UNCHANGED <<timers, reconnectAttempts, reconnectTimeoutRef, nextTimerId>>
    /\ UNCHANGED lastMessage
    /\ UNCHANGED controlSide

----------------------------------------------------------------------------
(***************************************************************************)
(* WebSocketProvider: the control channel.                                 *)
(***************************************************************************)

\* connectControlWebSocket: construct the socket and store it in controlWsRef
connectControlWebSocket ==
    /\ sockets' = NewSocket("control")
    /\ controlWsRef' = Len(sockets) + 1

\* ws.onopen of the control socket
ControlOnOpen ==
    /\ isConnected' = SetState(isConnected, TRUE)
    /\ console' = <<<<"log", "Control WebSocket connected">>>>
    /\ toasts' = <<>>
    /\ UNCHANGED <<controlWsRef, activeConnections>>
    /\ UNCHANGED audioSide

\* handleControlMessage: the switch on data.type
handleControlMessageToasts(data) ==
    CASE data.type = "preferences_updated" -> <<"Preferences updated">>
      [] data.type = "eq_enabled" -> <<"EQ enabled">>
      [] data.type = "eq_disabled" -> <<"EQ disabled">>
      [] data.type = "soundstage_enabled" -> <<"Soundstage optimization enabled">>
      [] data.type = "soundstage_disabled" -> <<"Soundstage optimization disabled">>
      [] data.type = "error" -> <<"error: message">>
      [] OTHER -> <<>>
handleControlMessageConsole(data) ==
    IF data.type \in ControlTypes THEN <<>>
    ELSE <<<<"log", "Unknown control message type">>>>
\* data.data.active_connections throws when the envelope carries no data
handleControlMessageThrows(data) ==
    data.type = "connection_info" /\ data.data = Undefined

\* ws.onmessage of the control socket: parse and dispatch; an exception is
\* caught and logged.
ControlOnMessage(m) ==
    /\ IF ~m.wf \/ ~IsEnvelope(m.value) \/ handleControlMessageThrows(m.value)
       THEN /\ console' = <<<<"error", "Error parsing control WebSocket message">>>>
            /\ toasts' = <<>>
            /\ UNCHANGED activeConnections
       ELSE /\ toasts' = handleControlMessageToasts(m.value)
            /\ console' = handleControlMessageConsole(m.value)
            /\ activeConnections' =
                   IF m.value.type = "connection_info"
                   THEN SetState(activeConnections, m.value.data.active_connections)
                   ELSE activeConnections
    /\ UNCHANGED <<isConnected, controlWsRef>>
    /\ UNCHANGED audioSide

\* ws.onerror of the control socket
ControlOnErrorToasts(withError) ==
    IF withError THEN <<"Control WebSocket connection error">> ELSE <<>>
ControlOnErrorConsole(withError) ==
    IF withError THEN <<<<"error", "Control WebSocket error">>>> ELSE <<>>

\* ws.onclose of the control socket (run after onerror when the close is a failure)
ControlOnCloseResetsRetries(withError) ==
    /\ isConnected' = SetState(isConnected, FALSE)
    /\ controlWsRef' = NULL
    /\ reconnectAttempts' = 0
    /\ console' = ControlOnErrorConsole(withError)
                    \o <<<<"log", "Control WebSocket disconnected">>>>
    /\ toasts' = ControlOnErrorToasts(withError)
    /\ UNCHANGED activeConnections
    /\ UNCHANGED <<connectionStatus, audioWsRef, lastMessage, reconnectTimeoutRef,
                   timers, nextTimerId>>
ControlOnClose(withError) ==
    /\ isConnected' = SetState(isConnected, FALSE)
    /\ controlWsRef' = NULL
    /\ console' = ControlOnErrorConsole(withError)
                    \o <<<<"log", "Control WebSocket disconnected">>>>
    /\ toasts' = ControlOnErrorToasts(withError)
    /\ UNCHANGED activeConnections
    /\ UNCHANGED audioSide

----------------------------------------------------------------------------
(***************************************************************************)
(* WebSocketProvider: outbound.                                            *)
(***************************************************************************)

\* JSON.stringify of a command object: a key whose value is undefined is left
\* out; the other values are written as they are.
JSONStringify(command) ==
    [k \in {k \in DOMAIN command : k = "type" \/ command[k] # Undefined} |-> command[k]]

JsonFrame(sock, data) == [sock |-> sock, kind |-> "json", data |-> data]
TextFrame(sock, text) == [sock |-> sock, kind |-> "text", data |-> text]

\* sendControlCommand: the frames transmitted and the console lines written
sendControlCommandSentNoStateCheck(command) ==
    IF controlWsRef # NULL
    THEN <<JsonFrame(controlWsRef, JSONStringify(command))>>
    ELSE <<>>
sendControlCommandSent(command) ==
    IF IsOpen(controlWsRef)
    THEN <<JsonFrame(controlWsRef, JSONStringify(command))>>
    ELSE <<>>
sendControlCommandConsole(command) ==
    IF IsOpen(controlWsRef) THEN <<>>
    ELSE <<<<"warn", "Control WebSocket not connected">>>>

\* sendAudioData: JSON.stringify(undefined) is undefined, which send() writes as
\* the text "undefined"
sendAudioDataSent(audioData) ==
    IF IsOpen(audioWsRef)
    THEN IF audioData = Undefined
         THEN <<TextFrame(audioWsRef, "undefined")>>
         ELSE <<JsonFrame(audioWsRef, audioData)>>
    ELSE <<>>
sendAudioDataConsole(audioData) ==
    IF IsOpen(audioWsRef) THEN <<>>
    ELSE <<<<"warn", "Audio WebSocket not connected">>>>

\* ping / getStatus / toggleAnalysis / clearBuffer: a plain string on the
\* telemetry socket, and nothing at all (no warning) when it is not open
sendAudioTextNoStateCheck(text) ==
    IF audioWsRef # NULL THEN <<TextFrame(audioWsRef, text)>> ELSE <<>>
sendAudioText(text) ==
    IF IsOpen(audioWsRef) THEN <<TextFrame(audioWsRef, text)>> ELSE <<>>

\* the command objects built by setPreferences .. getConnectionInfo
setPreferencesCommand(prefs) ==
    [type |-> "set_preferences", preferences |-> prefs]
enableEQCommand(eqProfile) ==
    [type |-> "enable_eq", eq_profile |-> eqProfile]
disableEQCommand == [type |-> "disable_eq"]
enableSoundstageCommand(soundstageProfile) ==
    [type |-> "enable_soundstage", soundstage_profile |-> soundstageProfile]
disableSoundstageCommand == [type |-> "disable_soundstage"]
getConnectionInfoCommand == [type |-> "get_connection_info"]

----------------------------------------------------------------------------
(***************************************************************************)
(* AudioContextProvider: the Application State Store.                      *)
(***************************************************************************)
initialState ==
    [isConnected |-> FALSE,
     isAnalyzing |-> FALSE,
     isProcessing |-> FALSE,
     audioData |-> JsonNull,
     analysisResults |-> JsonNull,
     eqProfile |-> JsonNull,
     soundstageProfile |-> JsonNull,
     userPreferences |-> initialUserPreferences,
     frequencyBands |-> frequencyBands,
     eqGains |-> ArrayFill(31, 0),
     realTimeData |->
        [frequencyResponse |-> <<>>, stereoWidth |-> 50, centerImageStrength |-> 50,
         depthPerception |-> 50, heightPerception |-> 50, noiseFloor |-> -60,
         dynamicRange |-> 0, thd |-> 0, imd |-> 0]]

\* {...a, ...b}: the keys of both, b's value where both have the key; spreading
\* undefined or null adds nothing
Spread(b) == IF b = Undefined \/ b = JsonNull THEN <<>> ELSE b
\* {...b}: the second object alone
MergeKeepsSecondOnly(a, b) == Spread(b)
\* {...b, ...a}: the spreads in the other order, the first object winning
MergeFirstWins(a, b) ==
    [k \in DOMAIN a \cup DOMAIN Spread(b) |->
        IF k \in DOMAIN a THEN a[k] ELSE Spread(b)[k]]
Merge(a, b) ==
    [k \in DOMAIN a \cup DOMAIN Spread(b) |->
        IF k \in DOMAIN Spread(b) THEN Spread(b)[k] ELSE a[k]]

\* o.k for a key the object may lack
Get(o, k) == IF k \in DOMAIN o THEN o[k] ELSE Undefined

Action(type, payload) == [type |-> type, payload |-> payload]

\* a reducer whose default branch starts over from initialState
audioReducerDefaultResets(st, action) ==
    IF action.type = "SET_CONNECTION_STATUS"
    THEN [st EXCEPT !.isConnected = action.payload]
    ELSE initialState
audioReducer(st, action) ==
    CASE action.type = "SET_CONNECTION_STATUS" ->
            [st EXCEPT !.isConnected = action.payload]
      [] action.type = "SET_ANALYZING" ->
            [st EXCEPT !.isAnalyzing = action.payload]
      [] action.type = "SET_PROCESSING" ->
            [st EXCEPT !.isProcessing = action.payload]
      [] action.type = "SET_AUDIO_DATA" ->
            [st EXCEPT !.audioData = action.payload]
      [] action.type = "SET_ANALYSIS_RESULTS" ->
            [st EXCEPT !.analysisResults = action.payload]
      [] action.type = "SET_EQ_PROFILE" ->
            [st EXCEPT !.eqProfile = action.payload]
      [] action.type = "SET_SOUNDSTAGE_PROFILE" ->
            [st EXCEPT !.soundstageProfile = action.payload]
      [] action.type = "UPDATE_USER_PREFERENCES" ->
            [st EXCEPT !.userPreferences = Merge(st.userPreferences, action.payload)]
      [] action.type = "UPDATE_EQ_GAINS" ->
            [st EXCEPT !.eqGains = action.payload]
      [] action.type = "UPDATE_REAL_TIME_DATA" ->
            [st EXCEPT !.realTimeData = Merge(st.realTimeData, action.payload)]
      [] action.type = "RESET_AUDIO_STATE" ->
            [st EXCEPT !.audioData = JsonNull, !.analysisResults = JsonNull,
                       !.isAnalyzing = FALSE, !.isProcessing = FALSE]
      [] OTHER -> st

\* the actions dispatched in one task, applied in order; a dispatch made after
\* the provider has unmounted is dropped
RECURSIVE Reduce(_, _)
Reduce(st, actions) ==
    IF actions = <<>> THEN st
    ELSE Reduce(audioReducer(st, Head(actions)), Tail(actions))
\* every action reduced from the state of the render that made the handler,
\* so that only the last one of a task stands
DispatchFromRenderedState(actions) ==
    IF acpMounted /\ actions # <<>>
    THEN audioReducer(state, actions[Len(actions)])
    ELSE state
Dispatch(actions) == IF acpMounted THEN Reduce(state, actions) ELSE state

(***************************************************************************)
(* AudioContextProvider: its audio-stream socket and the message router.   *)
(***************************************************************************)
\* analysis results the server may send
ResultWide == [clarity_index |-> 80, acoustic_profile |-> [stereoWidth |-> 80]]
ResultNoisy == [clarity_index |-> 70,
                acoustic_profile |-> [noiseFloor |-> -50, thd |-> 1]]
ResultBare == [clarity_index |-> 60]

StreamInbound ==
    {Malformed, Frame(JsonNull)}
        \cup {Frame(Envelope(t, Undefined)) : t \in AudioTypes \cup UnknownTypes}
        \cup {Frame(Envelope("analysis_result", d)) :
                d \in {ResultWide, ResultNoisy, ResultBare}}
        \cup {Frame(Envelope(t, ResultWide)) : t \in UnknownTypes \cup {"eq_enabled"}}

\* handleWebSocketMessage dropping the stored result when the server reports an
\* error
handleWebSocketMessageActionsErrorClears(data) ==
    CASE data.type = "analysis_result" /\ data.data = Undefined ->
            <<Action("SET_ANALYSIS_RESULTS", data.data)>>
      [] data.type = "analysis_result" /\ data.data # Undefined ->
            <<Action("SET_ANALYSIS_RESULTS", data.data),
              Action("UPDATE_REAL_TIME_DATA", Get(data.data, "acoustic_profile"))>>
      [] data.type = "error" -> <<Action("SET_ANALYSIS_RESULTS", JsonNull)>>
      [] OTHER -> <<>>
\* handleWebSocketMessage folding a new result into the stored one
handleWebSocketMessageActionsMerging(data) ==
    IF data.type = "analysis_result"
    THEN IF data.data = Undefined
         THEN <<Action("SET_ANALYSIS_RESULTS", data.data)>>
         ELSE <<Action("SET_ANALYSIS_RESULTS",
                       Merge(Spread(state.analysisResults), data.data)),
                Action("UPDATE_REAL_TIME_DATA", Get(data.data, "acoustic_profile"))>>
    ELSE <<>>
\* handleWebSocketMessage: the actions it dispatches, in order
handleWebSocketMessageActionsNoDefault(data) ==
    IF data.data = Undefined
    THEN IF data.type = "analysis_result"
         THEN <<Action("SET_ANALYSIS_RESULTS", data.data)>>
         ELSE <<>>
    ELSE <<Action("SET_ANALYSIS_RESULTS", data.data),
           Action("UPDATE_REAL_TIME_DATA", Get(data.data, "acoustic_profile"))>>
handleWebSocketMessageActions(data) ==
    IF data.type = "analysis_result"
    THEN IF data.data = Undefined
         THEN <<Action("SET_ANALYSIS_RESULTS", data.data)>>
         ELSE <<Action("SET_ANALYSIS_RESULTS", data.data),
                Action("UPDATE_REAL_TIME_DATA", Get(data.data, "acoustic_profile"))>>
    ELSE <<>>
\* data.data.acoustic_profile throws when the envelope carries no data
handleWebSocketMessageThrows(data) ==
    data.type = "analysis_result" /\ data.data = Undefined
handleWebSocketMessageToasts(data) ==
    IF data.type = "error" THEN <<"error: message">> ELSE <<>>
handleWebSocketMessageConsole(data) ==
    IF data.type \in AudioTypes THEN <<>>
    ELSE <<<<"log", "Unknown WebSocket message type">>>>

\* ws.onopen
StreamOnOpen ==
    /\ state' = Dispatch(<<Action("SET_CONNECTION_STATUS", TRUE)>>)
    /\ toasts' = <<"Connected to audio server">>
    /\ console' = <<>>
    /\ UNCHANGED <<timers, nextTimerId>>

\* ws.onmessage with the catch block taking the failure for a lost connection
StreamOnMessageFailureDisconnects(m) ==
    /\ IF ~m.wf \/ ~IsEnvelope(m.value)
       THEN /\ state' = Dispatch(<<Action("SET_CONNECTION_STATUS", FALSE)>>)
            /\ toasts' = <<>>
            /\ console' = <<<<"error", "Error parsing WebSocket message">>>>
       ELSE /\ state' = Dispatch(handleWebSocketMessageActions(m.value))
            /\ toasts' = handleWebSocketMessageToasts(m.value)
            /\ console' = handleWebSocketMessageConsole(m.value)
    /\ UNCHANGED <<timers, nextTimerId>>

\* ws.onmessage: parse and dispatch; an exception is caught and logged
StreamOnMessage(m) ==
    /\ IF ~m.wf \/ ~IsEnvelope(m.value)
       THEN /\ state' = state
            /\ toasts' = <<>>
            /\ console' = <<<<"error", "Error parsing WebSocket message">>>>
       ELSE /\ state' = Dispatch(handleWebSocketMessageActions(m.value))
            /\ toasts' = handleWebSocketMessageToasts(m.value)
            /\ console' =
                  handleWebSocketMessageConsole(m.value)
                    \o (IF handleWebSocketMessageThrows(m.value)
                        THEN <<<<"error", "Error parsing WebSocket message">>>>
                        ELSE <<>>)
    /\ UNCHANGED <<timers, nextTimerId>>

\* ws.onerror, then ws.onclose: the status goes false and a reconnect is set
\* for 3 s later, whatever closed the socket
StreamOnClose(withError) ==
    /\ state' = Dispatch(<<Action("SET_CONNECTION_STATUS", FALSE)>>)
    /\ toasts' = (IF withError THEN <<"WebSocket connection error">> ELSE <<>>)
                    \o <<"Disconnected from audio server">>
    /\ console' = IF withError THEN <<<<"error", "WebSocket error">>>> ELSE <<>>
    /\ timers' = timers \cup {[id |-> nextTimerId, delay |-> 3000,
                               callback |-> "connectWebSocket"]}
    /\ nextTimerId' = nextTimerId + 1

----------------------------------------------------------------------------
(***************************************************************************)
(* The tasks of WebSocketProvider.                                         *)
(***************************************************************************)

\* WebSocketProvider on its own, after construction and the first run of its
\* effects: both sockets constructed (the init effect), the ping interval set.
InitWS ==
    /\ sockets = <<[chan |-> "audio", readyState |-> "CONNECTING"],
                   [chan |-> "control", readyState |-> "CONNECTING"]>>
    /\ timers = {}
    /\ nextTimerId = 1
    /\ mounted = TRUE
    /\ isConnected = FALSE
    /\ connectionStatus = "disconnected"
    /\ activeConnections = 0
    /\ lastMessage = JsonNull
    /\ audioWsRef = 1
    /\ controlWsRef = 2
    /\ reconnectTimeoutRef = NULL
    /\ reconnectAttempts = 0
    /\ pingIntervalActive = TRUE
    /\ state = initialState
    /\ acpMounted = FALSE
    /\ acpWs = NULL
    /\ lastEvent = Ev("mount", "none", NULL, NoArg)
    /\ sent = <<>>
    /\ toasts = <<>>
    /\ console = <<>>
    /\ thrown = FALSE
    /\ attemptsBefore = 0
    /\ stateBefore = initialState
    /\ profileSettingsMounted = FALSE
    /\ preferences = initialUserPreferences
    /\ profileName = "My Profile"
    /\ isDirty = FALSE
    /\ pickerOpen = FALSE
    /\ reading = <<>>
    /\ eqControl = Unmounted
    /\ soundstageControl = Unmounted

\* what every task leaves behind about itself
Task(kind, chan, sock, arg) ==
    /\ lastEvent' = Ev(kind, chan, sock, arg)
    /\ attemptsBefore' = reconnectAttempts
    /\ stateBefore' = state
    /\ thrown' = FALSE
    /\ UNCHANGED <<acpVars, pageVars, controlVars>>

\* the open event of socket s
SocketOpen(s) ==
    /\ sockets[s].chan \in {"audio", "control"}
    /\ sockets[s].readyState = "CONNECTING"
    /\ sockets' = [sockets EXCEPT ![s].readyState = "OPEN"]
    /\ CASE sockets[s].chan = "audio" -> AudioOnOpen
         [] sockets[s].chan = "control" -> ControlOnOpen
    /\ Task("open", sockets[s].chan, s, NoArg)
    /\ sent' = <<>>
    /\ UNCHANGED <<mounted, pingIntervalActive>>

\* a message event of socket s (delivered only while the socket is OPEN)
SocketMessage(s, m) ==
    /\ sockets[s].chan \in {"audio", "control"}
    /\ sockets[s].readyState = "OPEN"
    /\ CASE sockets[s].chan = "audio" -> m \in AudioInbound /\ AudioOnMessage(m)
         [] sockets[s].chan = "control" -> m \in ControlInbound /\ ControlOnMessage(m)
    /\ Task("message", sockets[s].chan, s, m)
    /\ sent' = <<>>
    /\ UNCHANGED <<sockets, mounted, pingIntervalActive>>

\* the connection of socket s ends: the browser sets it CLOSED and fires error
\* (when the connection failed; always so for a socket that never opened) and
\* then close, in one task.
SocketClose(s, withError) ==
    /\ sockets[s].chan \in {"audio", "control"}
    /\ sockets[s].readyState \in {"CONNECTING", "OPEN", "CLOSING"}
    /\ sockets[s].readyState = "CONNECTING" => withError
    /\ sockets' = [sockets EXCEPT ![s].readyState = "CLOSED"]
    /\ CASE sockets[s].chan = "audio" -> AudioOnClose(withError)
         [] sockets[s].chan = "control" -> ControlOnClose(withError)
    /\ Task("close", sockets[s].chan, s,
            [planned |-> sockets[s].readyState = "CLOSING", withError |-> withError])
    /\ sent' = <<>>
    /\ UNCHANGED <<mounted, pingIntervalActive>>

\* the reconnect timer t fires: its callback logs and calls connectAudioWebSocket
ReconnectTimerFires(t) ==
    /\ t \in timers
    /\ t.callback = "connectAudioWebSocket"
    /\ Cardinality(SocketIds("audio")) < MaxAudioSockets
    /\ timers' = timers \ {t}
    /\ connectAudioWebSocket
    /\ console' = <<<<"log", "Attempting to reconnect">>>>
    /\ toasts' = <<>>
    /\ Task("timer", "audio", Len(sockets) + 1, NoArg)
    /\ sent' = <<>>
    /\ UNCHANGED <<nextTimerId, mounted, isConnected, connectionStatus,
                   activeConnections, lastMessage, controlWsRef,
                   reconnectTimeoutRef, reconnectAttempts, pingIntervalActive>>

\* WebSocket.close(): a socket that is CONNECTING or OPEN becomes CLOSING (its
\* close event comes in a later task); otherwise nothing happens.
CloseSocket(socks, ref) ==
    IF ref # NULL /\ socks[ref].readyState \in {"CONNECTING", "OPEN"}
    THEN [socks EXCEPT ![ref].readyState = "CLOSING"]
    ELSE socks

\* the provider unmounts: the cleanup of the init effect (clear the reconnect
\* timer, close both sockets) and of the ping effect (clear the interval)
Teardown ==
    /\ mounted
    /\ timers' = {t \in timers : t.id # reconnectTimeoutRef}
    /\ sockets' = CloseSocket(CloseSocket(sockets, audioWsRef), controlWsRef)
    /\ pingIntervalActive' = FALSE
    /\ mounted' = FALSE
    /\ Task("teardown", "none", NULL, NoArg)
    /\ sent' = <<>>
    /\ toasts' = <<>>
    /\ console' = <<>>
    /\ UNCHANGED <<nextTimerId, isConnected, connectionStatus, activeConnections,
                   lastMessage, audioWsRef, controlWsRef, reconnectTimeoutRef,
                   reconnectAttempts>>

\* a task that only calls one of the provider's methods: nothing but the
\* outputs changes
Call(kind, chan, arg, frames, lines) ==
    /\ mounted
    /\ Task(kind, chan, NULL, arg)
    /\ sent' = frames
    /\ console' = lines
    /\ toasts' = <<>>
    /\ UNCHANGED <<browserVars, wsVars>>

\* the interval callback taking a ping it could not send for a fresh start of
\* the reconnect accounting
HeartbeatTickRestartsBackoff ==
    /\ pingIntervalActive
    /\ mounted
    /\ Task("heartbeat", "audio", NULL, NoArg)
    /\ sent' = IF isConnected THEN sendAudioText("ping") ELSE <<>>
    /\ console' = <<>>
    /\ toasts' = <<>>
    /\ reconnectAttempts' = IF IsOpen(audioWsRef) THEN reconnectAttempts ELSE 0
    /\ UNCHANGED <<browserVars, mounted, isConnected, connectionStatus,
                   activeConnections, lastMessage, audioWsRef, controlWsRef,
                   reconnectTimeoutRef, pingIntervalActive>>

\* the 30 s interval of the ping effect fires: if (isConnected) ping()
HeartbeatTick ==
    /\ pingIntervalActive
    /\ Call("heartbeat", "audio", NoArg,
            IF isConnected THEN sendAudioText("ping") ELSE <<>>, <<>>)

\* calls made by the pages
CallSendAudioData(audioData) ==
    Call("sendAudioData", "audio", audioData,
         sendAudioDataSent(audioData), sendAudioDataConsole(audioData))
CallTextCommand(text) ==
    Call(text, "audio", NoArg, sendAudioText(text), <<>>)
CallControl(kind, arg, command) ==
    Call(kind, "control", arg,
         sendControlCommandSent(command), sendControlCommandConsole(command))
CallSetPreferences(prefs) ==
    CallControl("set_preferences", prefs, setPreferencesCommand(prefs))
CallEnableEQ(eqProfile) ==
    CallControl("enable_eq", eqProfile, enableEQCommand(eqProfile))
CallDisableEQ ==
    CallControl("disable_eq", NoArg, disableEQCommand)
CallEnableSoundstage(soundstageProfile) ==
    CallControl("enable_soundstage", soundstageProfile,
                enableSoundstageCommand(soundstageProfile))
CallDisableSoundstage ==
    CallControl("disable_soundstage", NoArg, disableSoundstageCommand)
\* getConnectionInfo writing to the telemetry socket
CallGetConnectionInfoOnTelemetry ==
    Call("get_connection_info", "control", NoArg,
         IF IsOpen(audioWsRef)
         THEN <<JsonFrame(audioWsRef, JSONStringify(getConnectionInfoCommand))>>
         ELSE <<>>,
         <<>>)
CallGetConnectionInfo ==
    CallControl("get_connection_info", NoArg, getConnectionInfoCommand)

TextCommands == {"ping", "get_status", "toggle_analysis", "clear_buffer"}
ControlCommands == {"set_preferences", "enable_eq", "disable_eq", "enable_soundstage",
                    "disable_soundstage", "get_connection_info"}

NextWS ==
    \/ \E s \in DOMAIN sockets : SocketOpen(s)
    \/ \E s \in DOMAIN sockets : \E m \in AudioInbound \cup ControlInbound :
            SocketMessage(s, m)
    \/ \E s \in DOMAIN sockets : \E withError \in BOOLEAN : SocketClose(s, withError)
    \/ \E t \in timers : ReconnectTimerFires(t)
    \/ Teardown
    \/ HeartbeatTick
    \/ \E audioData \in AudioDataArgs : CallSendAudioData(audioData)
    \/ \E text \in TextCommands : CallTextCommand(text)
    \/ \E prefs \in PreferencesArgs : CallSetPreferences(prefs)
    \/ \E eqProfile \in EqProfileArgs : CallEnableEQ(eqProfile)
    \/ CallDisableEQ
    \/ \E soundstageProfile \in SoundstageProfileArgs :
            CallEnableSoundstage(soundstageProfile)
    \/ CallDisableSoundstage
    \/ CallGetConnectionInfo

SpecWS == InitWS /\ [][NextWS]_vars

\* React runs the provider's effects again on the instance that is mounted
\* (the cleanups first, then the effects): the reconnect timer the ref names is
\* cleared, both sockets are closed and the interval is cleared, then
\* connectAudioWebSocket and connectControlWebSocket construct two new sockets
\* and the interval is set again.  The state and the refs are those of before.
Reinitialise ==
    /\ mounted
    /\ Cardinality(SocketIds("audio")) < MaxAudioSockets
    /\ timers' = {t \in timers : t.id # reconnectTimeoutRef}
    /\ sockets' = CloseSocket(CloseSocket(sockets, audioWsRef), controlWsRef)
                    \o <<[chan |-> "audio", readyState |-> "CONNECTING"],
                         [chan |-> "control", readyState |-> "CONNECTING"]>>
    /\ audioWsRef' = Len(sockets) + 1
    /\ controlWsRef' = Len(sockets) + 2
    /\ pingIntervalActive' = TRUE
    /\ Task("reinitialise", "none", NULL, NoArg)
    /\ sent' = <<>>
    /\ toasts' = <<>>
    /\ console' = <<>>
    /\ UNCHANGED <<nextTimerId, mounted, isConnected, connectionStatus,
                   activeConnections, lastMessage, reconnectTimeoutRef,
                   reconnectAttempts>>

\* The control channel of a provider whose effects are run again while it is
\* mounted.
NextRemount ==
    \/ \E s \in SocketIds("control") : SocketOpen(s)
    \/ \E s \in SocketIds("control") : \E withError \in BOOLEAN :
            SocketClose(s, withError)
    \/ Reinitialise
    \/ CallGetConnectionInfo

SpecRemount == InitWS /\ [][NextRemount]_vars
\* The connection lifecycle alone, with the browser's promise about timers: a
\* timer that stays pending does fire.
NextLifecycle ==
    \/ \E s \in DOMAIN sockets : SocketOpen(s)
    \/ \E s \in DOMAIN sockets : \E withError \in BOOLEAN : SocketClose(s, withError)
    \/ \E t \in timers : ReconnectTimerFires(t)
    \/ Teardown

SpecLifecycle ==
    /\ InitWS
    /\ [][NextLifecycle]_vars
    /\ WF_vars(\E t \in timers : ReconnectTimerFires(t))

----------------------------------------------------------------------------
(***************************************************************************)
(* The tasks of AudioContextProvider.                                      *)
(***************************************************************************)
\* what every task of this provider leaves behind about itself
StreamTask(kind, sock, arg) ==
    /\ lastEvent' = Ev(kind, "stream", sock, arg)
    /\ attemptsBefore' = reconnectAttempts
    /\ stateBefore' = state
    /\ thrown' = FALSE
    /\ sent' = <<>>
    /\ UNCHANGED <<wsVars, pageVars, controlVars>>

\* the open event of the provider's socket s
StreamOpen(s) ==
    /\ sockets[s].chan = "stream"
    /\ sockets[s].readyState = "CONNECTING"
    /\ sockets' = [sockets EXCEPT ![s].readyState = "OPEN"]
    /\ StreamOnOpen
    /\ StreamTask("open", s, NoArg)
    /\ UNCHANGED <<acpMounted, acpWs>>

\* a message event of the provider's socket s
StreamMessage(s, m) ==
    /\ sockets[s].chan = "stream"
    /\ sockets[s].readyState = "OPEN"
    /\ StreamOnMessage(m)
    /\ StreamTask("message", s, m)
    /\ UNCHANGED <<sockets, acpMounted, acpWs>>

\* the connection of the provider's socket s ends: error (if it failed), close
StreamClose(s, withError) ==
    /\ sockets[s].chan = "stream"
    /\ sockets[s].readyState \in {"CONNECTING", "OPEN", "CLOSING"}
    /\ sockets[s].readyState = "CONNECTING" => withError
    /\ sockets' = [sockets EXCEPT ![s].readyState = "CLOSED"]
    /\ StreamOnClose(withError)
    /\ StreamTask("close", s,
                  [planned |-> sockets[s].readyState = "CLOSING", withError |-> withError])
    /\ UNCHANGED <<acpMounted, acpWs>>

\* the 3 s timer fires: connectWebSocket constructs the next socket (the value
\* it returns is dropped)
StreamTimerFires(t) ==
    /\ t \in timers
    /\ t.callback = "connectWebSocket"
    /\ Cardinality(SocketIds("stream")) < MaxStreamSockets
    /\ timers' = timers \ {t}
    /\ sockets' = NewSocket("stream")
    /\ toasts' = <<>>
    /\ console' = <<>>
    /\ StreamTask("timer", Len(sockets) + 1, NoArg)
    /\ UNCHANGED <<nextTimerId, acpVars>>

\* the reads of a page that has gone: their load events still come, for a
\* component that is no longer there
Orphaned(reads) == [i \in DOMAIN reads |-> [reads[i] EXCEPT !.orphan = TRUE]]

\* AudioContextProvider unmounts, and with it all that App renders inside it.
\* Its effect's cleanup closes the socket the effect itself constructed; the
\* cleanups of WebSocketProvider, when it is mounted inside, clear the
\* reconnect timer the ref names, close its two sockets and clear the ping
\* interval; the pages are gone.
AcpTeardown ==
    /\ acpMounted
    /\ acpMounted' = FALSE
    /\ sockets' =
          CloseSocket(IF mounted
                      THEN CloseSocket(CloseSocket(sockets, audioWsRef), controlWsRef)
                      ELSE sockets,
                      acpWs)
    /\ timers' = IF mounted THEN {t \in timers : t.id # reconnectTimeoutRef}
                 ELSE timers
    /\ mounted' = FALSE
    /\ pingIntervalActive' = IF mounted THEN FALSE ELSE pingIntervalActive
    /\ profileSettingsMounted' = FALSE
    /\ preferences' = initialUserPreferences
    /\ profileName' = "My Profile"
    /\ isDirty' = FALSE
    /\ pickerOpen' = FALSE
    /\ reading' = Orphaned(reading)
    /\ eqControl' = Unmounted
    /\ soundstageControl' = Unmounted
    /\ lastEvent' = Ev("teardown", "stream", NULL, NoArg)
    /\ attemptsBefore' = reconnectAttempts
    /\ stateBefore' = state
    /\ thrown' = FALSE
    /\ sent' = <<>>
    /\ toasts' = <<>>
    /\ console' = <<>>
    /\ UNCHANGED <<nextTimerId, state, acpWs, isConnected, connectionStatus,
                   activeConnections, lastMessage, audioWsRef, controlWsRef,
                   reconnectTimeoutRef, reconnectAttempts>>

NextACP ==
    \/ \E s \in DOMAIN sockets : StreamOpen(s)
    \/ \E s \in DOMAIN sockets : \E m \in StreamInbound : StreamMessage(s, m)
    \/ \E s \in DOMAIN sockets : \E withError \in BOOLEAN : StreamClose(s, withError)
    \/ \E t \in timers : StreamTimerFires(t)
    \/ AcpTeardown

\* The application as App mounts it: WebSocketProvider inside
\* AudioContextProvider (the effects of the inner provider run first).
InitApp ==
    /\ sockets = <<[chan |-> "audio", readyState |-> "CONNECTING"],
                   [chan |-> "control", readyState |-> "CONNECTING"],
                   [chan |-> "stream", readyState |-> "CONNECTING"]>>
    /\ timers = {}
    /\ nextTimerId = 1
    /\ mounted = TRUE
    /\ isConnected = FALSE
    /\ connectionStatus = "disconnected"
    /\ activeConnections = 0
    /\ lastMessage = JsonNull
    /\ audioWsRef = 1
    /\ controlWsRef = 2
    /\ reconnectTimeoutRef = NULL
    /\ reconnectAttempts = 0
    /\ pingIntervalActive = TRUE
    /\ state = initialState
    /\ acpMounted = TRUE
    /\ acpWs = 3
    /\ lastEvent = Ev("mount", "none", NULL, NoArg)
    /\ sent = <<>>
    /\ toasts = <<>>
    /\ console = <<>>
    /\ thrown = FALSE
    /\ attemptsBefore = 0
    /\ stateBefore = initialState
    /\ profileSettingsMounted = FALSE
    /\ preferences = initialUserPreferences
    /\ profileName = "My Profile"
    /\ isDirty = FALSE
    /\ pickerOpen = FALSE
    /\ reading = <<>>
    /\ eqControl = Unmounted
    /\ soundstageControl = Unmounted

\* The inbound path of the three sockets: the whole of AudioContextProvider,
\* and the open and message events of WebSocketProvider's two sockets.
NextRouter ==
    \/ NextACP
    \/ \E s \in DOMAIN sockets : SocketOpen(s)
    \/ \E s \in DOMAIN sockets : \E m \in AudioInbound \cup ControlInbound :
            SocketMessage(s, m)

SpecRouter == InitApp /\ [][NextRouter]_vars

----------------------------------------------------------------------------
(***************************************************************************)
(* The Store's methods, as the context hands them to the pages.            *)
(***************************************************************************)

\* ProfileSettings' effect on [userPreferences]: the reducer builds a new
\* userPreferences object on every UPDATE_USER_PREFERENCES, and the mounted
\* page then copies it into its editable state
PreferencesAfter(actions) ==
    IF /\ profileSettingsMounted
       /\ acpMounted
       /\ \E i \in DOMAIN actions : actions[i].type = "UPDATE_USER_PREFERENCES"
    THEN Dispatch(actions).userPreferences
    ELSE preferences

\* a task that only calls one of the Store's methods
StoreCall(kind, arg, actions) ==
    /\ acpMounted
    /\ state' = Dispatch(actions)
    /\ preferences' = PreferencesAfter(actions)
    /\ lastEvent' = Ev(kind, "store", NULL, arg)
    /\ stateBefore' = state
    /\ attemptsBefore' = reconnectAttempts
    /\ thrown' = FALSE
    /\ sent' = <<>>
    /\ toasts' = <<>>
    /\ console' = <<>>
    /\ UNCHANGED <<browserVars, wsVars, acpMounted, acpWs,
                   profileSettingsMounted, profileName, isDirty, pickerOpen,
                   reading, controlVars>>

startAnalysis ==
    StoreCall("startAnalysis", NoArg, <<Action("SET_ANALYZING", TRUE)>>)
stopAnalysis ==
    StoreCall("stopAnalysis", NoArg, <<Action("SET_ANALYZING", FALSE)>>)
updateUserPreferences(prefs) ==
    StoreCall("updateUserPreferences", prefs,
              <<Action("UPDATE_USER_PREFERENCES", prefs)>>)
updateEQGains(gains) ==
    StoreCall("updateEQGains", gains, <<Action("UPDATE_EQ_GAINS", gains)>>)
setEQProfile(profile) ==
    StoreCall("setEQProfile", profile, <<Action("SET_EQ_PROFILE", profile)>>)
setSoundstageProfile(profile) ==
    StoreCall("setSoundstageProfile", profile,
              <<Action("SET_SOUNDSTAGE_PROFILE", profile)>>)
\* resetAudioState also putting the equalizer back to flat
resetAudioStateFlattensEq ==
    StoreCall("resetAudioState", NoArg,
              <<Action("RESET_AUDIO_STATE", Undefined),
                Action("UPDATE_EQ_GAINS", ArrayFill(31, 0))>>)
resetAudioState ==
    StoreCall("resetAudioState", NoArg, <<Action("RESET_AUDIO_STATE", Undefined)>>)

\* the rock preset of EQControl
presetsRock ==
    <<20, 10, 0, -10, -20, -10, 0, 10, 20, 10, 0, -10, 0, 10, 20, 10, 0, -10, 0,
      10, 20, 10, 0, -10, 0, 10, 20, 10, 0, -10, 0>>
\* an array one band short of the frequency table
ShortGains == ArrayFill(Len(frequencyBands) - 1, 0)

\* the payloads given to the Store's methods in this model: updateEQGains and
\* updateUserPreferences take any value
GainsPayloads == {FlatGains, presetsRock, ShortGains}
PreferencesPayloads ==
    {[bass_preference |-> 50], [speaker_count |-> 4], [custom_key |-> 1]}
StoreInbound ==
    {Malformed} \cup {Frame(Envelope("analysis_result", d)) :
                        d \in {ResultWide, ResultBare}}

NextStore ==
    \/ startAnalysis
    \/ stopAnalysis
    \/ \E prefs \in PreferencesPayloads : updateUserPreferences(prefs)
    \/ \E gains \in GainsPayloads : updateEQGains(gains)
    \/ setEQProfile(EqProfileOf(state.eqGains, state.userPreferences))
    \/ setSoundstageProfile(SoundstageProfileOf(initialSoundstageSettings))
    \/ resetAudioState
    \/ \E s \in DOMAIN sockets : StreamOpen(s)
    \/ \E s \in DOMAIN sockets : \E m \in StoreInbound : StreamMessage(s, m)

SpecStore == InitApp /\ [][NextStore]_vars

\* The reducer on its own: one action of each type it names, with a payload of
\* the kind its callers pass, and one of a type it does not name.
ReducerActions ==
    <<Action("SET_CONNECTION_STATUS", TRUE),
      Action("SET_ANALYZING", TRUE),
      Action("SET_PROCESSING", TRUE),
      Action("SET_AUDIO_DATA", [samples |-> <<1, 2>>]),
      Action("SET_ANALYSIS_RESULTS", ResultWide),
      Action("SET_EQ_PROFILE", EqProfileOf(presetsRock, initialUserPreferences)),
      Action("SET_SOUNDSTAGE_PROFILE", SoundstageProfileOf(initialSoundstageSettings)),
      Action("UPDATE_USER_PREFERENCES", [bass_preference |-> 50]),
      Action("UPDATE_EQ_GAINS", presetsRock),
      Action("UPDATE_REAL_TIME_DATA", [thd |-> 1]),
      Action("RESET_AUDIO_STATE", Undefined),
      Action("REPLACE_STATE", initialState)>>

\* dispatch(action)
dispatch(action) == StoreCall("dispatch", action, <<action>>)

NextReducer == \E i \in DOMAIN ReducerActions : dispatch(ReducerActions[i])

SpecReducer == InitApp /\ [][NextReducer]_vars

----------------------------------------------------------------------------
(***************************************************************************)
(* ProfileSettings: the preferences page.  Its buttons are disabled while  *)
(* the Store's isConnected flag is false (Save also while nothing was      *)
(* edited); the inputs are always live.                                    *)
(***************************************************************************)

\* what every task of the page leaves behind about itself
PageTask(kind, arg) ==
    /\ profileSettingsMounted
    /\ lastEvent' = Ev(kind, "page", NULL, arg)
    /\ stateBefore' = state
    /\ attemptsBefore' = reconnectAttempts
    /\ thrown' = FALSE
    /\ UNCHANGED <<browserVars, wsVars, acpMounted, acpWs, profileSettingsMounted,
                   pickerOpen, reading, controlVars>>

\* o.k used as a condition: a missing field is undefined, which is falsy; the
\* fields the files of this model do have are objects and non-empty strings,
\* which are truthy
Truthy(o, k) == k \in DOMAIN o

\* the route changes to the page: useState initial values, then the effect on
\* [userPreferences] copies the Store's preferences
MountProfileSettings ==
    /\ ~profileSettingsMounted
    /\ acpMounted
    /\ profileSettingsMounted' = TRUE
    /\ preferences' = state.userPreferences
    /\ profileName' = "My Profile"
    /\ isDirty' = FALSE
    /\ pickerOpen' = FALSE
    /\ reading' = reading
    /\ lastEvent' = Ev("mountProfileSettings", "page", NULL, NoArg)
    /\ stateBefore' = state
    /\ attemptsBefore' = reconnectAttempts
    /\ thrown' = FALSE
    /\ sent' = <<>>
    /\ toasts' = <<>>
    /\ console' = <<>>
    /\ UNCHANGED <<browserVars, wsVars, acpVars, controlVars>>

\* the route changes away: the page's state is gone
UnmountProfileSettings ==
    /\ profileSettingsMounted
    /\ profileSettingsMounted' = FALSE
    /\ preferences' = initialUserPreferences
    /\ profileName' = "My Profile"
    /\ isDirty' = FALSE
    /\ pickerOpen' = FALSE
    /\ reading' = Orphaned(reading)
    /\ lastEvent' = Ev("unmountProfileSettings", "page", NULL, NoArg)
    /\ stateBefore' = state
    /\ attemptsBefore' = reconnectAttempts
    /\ thrown' = FALSE
    /\ sent' = <<>>
    /\ toasts' = <<>>
    /\ console' = <<>>
    /\ UNCHANGED <<browserVars, wsVars, acpVars, controlVars>>

\* an input of the page changes: {...prev, [key]: value}
handlePreferenceChange(key, value) ==
    /\ PageTask("handlePreferenceChange", <<key, value>>)
    /\ preferences' = Merge(preferences, [k \in {key} |-> value])
    /\ isDirty' = TRUE
    /\ sent' = <<>>
    /\ toasts' = <<>>
    /\ console' = <<>>
    /\ UNCHANGED <<state, profileName>>

\* the profile-name input changes
handleProfileNameChange(name) ==
    /\ PageTask("setProfileName", name)
    /\ profileName' = name
    /\ sent' = <<>>
    /\ toasts' = <<>>
    /\ console' = <<>>
    /\ UNCHANGED <<state, preferences, isDirty>>

\* Save Preferences: the editable state goes to the Store and to the server
handleSavePreferences ==
    /\ PageTask("handleSavePreferences", preferences)
    /\ state.isConnected /\ isDirty
    /\ state' = Dispatch(<<Action("UPDATE_USER_PREFERENCES", preferences)>>)
    /\ sent' = sendControlCommandSent(setPreferencesCommand(preferences))
    /\ console' = sendControlCommandConsole(setPreferencesCommand(preferences))
    /\ isDirty' = FALSE
    /\ toasts' = <<"Preferences saved">>
    /\ preferences' = PreferencesAfter(<<Action("UPDATE_USER_PREFERENCES", preferences)>>)
    /\ UNCHANGED profileName

\* Reset to Defaults: the editable state only
handleResetPreferences ==
    /\ PageTask("handleResetPreferences", NoArg)
    /\ state.isConnected
    /\ preferences' = initialUserPreferences
    /\ isDirty' = TRUE
    /\ toasts' = <<"Preferences reset to defaults">>
    /\ sent' = <<>>
    /\ console' = <<>>
    /\ UNCHANGED <<state, profileName>>

\* Export: a download of the editable state
handleExportProfile ==
    /\ PageTask("handleExportProfile", [name |-> profileName, preferences |-> preferences])
    /\ state.isConnected
    /\ toasts' = <<"Profile exported">>
    /\ sent' = <<>>
    /\ console' = <<>>
    /\ UNCHANGED <<state, preferences, profileName, isDirty>>

\* the Import button (disabled while the Store's isConnected is false): its
\* click opens the picker of the hidden file input
handleImportClick ==
    /\ profileSettingsMounted
    /\ state.isConnected
    /\ pickerOpen' = TRUE
    /\ lastEvent' = Ev("handleImportClick", "page", NULL, NoArg)
    /\ stateBefore' = state
    /\ attemptsBefore' = reconnectAttempts
    /\ thrown' = FALSE
    /\ toasts' = <<>>
    /\ sent' = <<>>
    /\ console' = <<>>
    /\ UNCHANGED <<browserVars, wsVars, acpVars, profileSettingsMounted,
                   preferences, profileName, isDirty, reading, controlVars>>

\* handleImportProfile: the change event of the hidden input, in a later task
\* than the click and behind no guard of its own: a file has been chosen, a
\* FileReader is made and readAsText started
handleImportProfile(file) ==
    /\ profileSettingsMounted
    /\ pickerOpen
    /\ Len(reading) < MaxReads
    /\ pickerOpen' = FALSE
    /\ reading' = Append(reading, [file |-> file, orphan |-> FALSE])
    /\ lastEvent' = Ev("handleImportProfile", "page", NULL, file)
    /\ stateBefore' = state
    /\ attemptsBefore' = reconnectAttempts
    /\ thrown' = FALSE
    /\ toasts' = <<>>
    /\ sent' = <<>>
    /\ console' = <<>>
    /\ UNCHANGED <<browserVars, wsVars, acpVars, profileSettingsMounted,
                   preferences, profileName, isDirty, controlVars>>

\* a setter of the page called by a read: dropped when the page that started
\* the read has gone
SetPageState(read, cur, new) == IF read.orphan THEN cur ELSE new

\* reader.onload of the i-th read in flight, in a later task, whatever has
\* happened since.  The file's preferences, if it has any, replace the
\* editable state as they are.
readerOnLoad(i) ==
    /\ i \in DOMAIN reading
    /\ reading' = [j \in 1..(Len(reading) - 1) |->
                      IF j < i THEN reading[j] ELSE reading[j + 1]]
    /\ IF ~reading[i].file.wf \/ ~IsEnvelope(reading[i].file.value)
       THEN /\ toasts' = <<"Error reading profile file">>
            /\ UNCHANGED <<preferences, profileName, isDirty>>
       ELSE IF Truthy(reading[i].file.value, "preferences")
       THEN /\ preferences' = SetPageState(reading[i], preferences,
                                           reading[i].file.value.preferences)
            /\ profileName' = IF Truthy(reading[i].file.value, "name")
                               THEN SetPageState(reading[i], profileName,
                                                 reading[i].file.value.name)
                               ELSE profileName
            /\ isDirty' = SetPageState(reading[i], isDirty, TRUE)
            /\ toasts' = <<"Profile imported">>
       ELSE /\ toasts' = <<"Invalid profile file">>
            /\ UNCHANGED <<preferences, profileName, isDirty>>
    /\ lastEvent' = Ev("reader.onload", "page", NULL, reading[i].file)
    /\ stateBefore' = state
    /\ attemptsBefore' = reconnectAttempts
    /\ thrown' = FALSE
    /\ sent' = <<>>
    /\ console' = <<>>
    /\ UNCHANGED <<browserVars, wsVars, acpVars, profileSettingsMounted, pickerOpen,
                   controlVars>>

\* Reset All Settings: resetAudioState(), handleResetPreferences(), the name,
\* and isDirty set true and then false
handleResetAll ==
    /\ PageTask("handleResetAll", NoArg)
    /\ state.isConnected
    /\ state' = Dispatch(<<Action("RESET_AUDIO_STATE", Undefined)>>)
    /\ preferences' = initialUserPreferences
    /\ profileName' = "My Profile"
    /\ isDirty' = FALSE
    /\ toasts' = <<"Preferences reset to defaults", "All settings reset">>
    /\ sent' = <<>>
    /\ console' = <<>>

\* what the user does on the page in this model: a slider and a select moved
\* to values they offer, and four files given to Import
PreferenceChanges == {<<"bass_preference", 50>>, <<"speaker_count", 4>>}
ProfileNames == {"Road trip"}
FilePartial == Frame([preferences |-> [bass_preference |-> 150]])
FileExtraKey ==
    Frame([name |-> "Road trip",
           preferences |-> Merge(initialUserPreferences, [custom_key |-> 1])])
FileNoPreferences == Frame([name |-> "Road trip"])
ProfileFiles == {Malformed, FileNoPreferences, FilePartial, FileExtraKey}

NextProfile ==
    \/ MountProfileSettings
    \/ UnmountProfileSettings
    \/ \E c \in PreferenceChanges : handlePreferenceChange(c[1], c[2])
    \/ \E name \in ProfileNames : handleProfileNameChange(name)
    \/ handleSavePreferences
    \/ handleResetPreferences
    \/ handleExportProfile
    \/ handleImportClick
    \/ \E file \in ProfileFiles : handleImportProfile(file)
    \/ \E i \in DOMAIN reading : readerOnLoad(i)
    \/ handleResetAll
    \/ \E s \in DOMAIN sockets : StreamOpen(s)
    \/ \E s \in DOMAIN sockets : \E withError \in BOOLEAN : StreamClose(s, withError)
    \/ \E s \in DOMAIN sockets : SocketOpen(s)

SpecProfile == InitApp /\ [][NextProfile]_vars

----------------------------------------------------------------------------
(***************************************************************************)
(* EQControl and SoundstageControl: the equalizer and soundstage pages.    *)
(* Their buttons are disabled while the Store's isConnected flag is false; *)
(* the sliders and the preset buttons are always live.                     *)
(***************************************************************************)

\* what every task of these pages leaves behind about itself
ControlTask(kind, chan, arg) ==
    /\ lastEvent' = Ev(kind, chan, NULL, arg)
    /\ stateBefore' = state
    /\ attemptsBefore' = reconnectAttempts
    /\ thrown' = FALSE
    /\ UNCHANGED <<browserVars, wsVars, acpMounted, acpWs, pageVars>>

\* a task of a page that sends nothing and logs nothing
Quiet == sent' = <<>> /\ console' = <<>>

\* EQControl's presets
presetsJazz == [i \in 1..31 |-> IF i <= 2 THEN 10 ELSE 0]
presetsElectronic ==
    <<30, 20, 10, 0, -10, 0, 10, 20, 10, 0, -10, 0, 10, 20, 10, 0, -10, 0, 10,
      20, 10, 0, -10, 0, 10, 20, 10, 0, -10, 0, 10>>
\* the presets with the last entry of pop missing
eqPresetsShortPop ==
    [flat |-> ArrayFill(31, 0), rock |-> presetsRock, classical |-> ArrayFill(31, 0),
     jazz |-> presetsJazz, electronic |-> presetsElectronic,
     pop |-> [i \in 1..30 |-> IF i <= 2 THEN 10 ELSE 0]]
eqPresets ==
    [flat |-> ArrayFill(31, 0), rock |-> presetsRock, classical |-> ArrayFill(31, 0),
     jazz |-> presetsJazz, electronic |-> presetsElectronic, pop |-> presetsJazz]

\* the route changes to EQControl, and away from it
MountEQControl ==
    /\ eqControl = Unmounted
    /\ acpMounted /\ mounted
    /\ eqControl' = [isEQEnabled |-> FALSE, selectedPreset |-> "custom",
                     eqProfile |-> JsonNull]
    /\ ControlTask("mountEQControl", "eq", NoArg)
    /\ Quiet /\ toasts' = <<>>
    /\ UNCHANGED <<state, soundstageControl>>
UnmountEQControl ==
    /\ eqControl # Unmounted
    /\ eqControl' = Unmounted
    /\ ControlTask("unmountEQControl", "eq", NoArg)
    /\ Quiet /\ toasts' = <<>>
    /\ UNCHANGED <<state, soundstageControl>>

\* a band slider moves: a copy of eqGains with slot index (from 0) replaced
handleEQGainChange(index, value) ==
    /\ eqControl # Unmounted
    /\ index + 1 \in DOMAIN state.eqGains
    /\ state' = Dispatch(<<Action("UPDATE_EQ_GAINS",
                                  [state.eqGains EXCEPT ![index + 1] = value])>>)
    /\ ControlTask("handleEQGainChange", "eq", <<index, value>>)
    /\ Quiet /\ toasts' = <<>>
    /\ UNCHANGED controlVars

\* a preset button of EQControl
handleEQPresetChange(presetName) ==
    /\ eqControl # Unmounted
    /\ eqControl' = [eqControl EXCEPT !.selectedPreset = presetName]
    /\ state' = IF presetName # "custom"
                THEN Dispatch(<<Action("UPDATE_EQ_GAINS", eqPresets[presetName])>>)
                ELSE state
    /\ ControlTask("handlePresetChange", "eq", presetName)
    /\ Quiet /\ toasts' = <<>>
    /\ UNCHANGED soundstageControl

\* Reset of EQControl
handleResetEQ ==
    /\ eqControl # Unmounted
    /\ state.isConnected
    /\ state' = Dispatch(<<Action("UPDATE_EQ_GAINS", ArrayFill(31, 0))>>)
    /\ eqControl' = [eqControl EXCEPT !.selectedPreset = "flat"]
    /\ ControlTask("handleResetEQ", "eq", NoArg)
    /\ Quiet /\ toasts' = <<"EQ reset to flat">>
    /\ UNCHANGED soundstageControl

\* Save Profile of EQControl: the profile goes to the page's own state
handleEQSaveProfile ==
    /\ eqControl # Unmounted
    /\ state.isConnected
    /\ eqControl' =
          [eqControl EXCEPT !.eqProfile =
              [EqProfileOf(state.eqGains, state.userPreferences)
                  EXCEPT !.name = "Custom_date"]]
    /\ ControlTask("handleSaveProfile", "eq", NoArg)
    /\ Quiet /\ toasts' = <<"EQ profile saved">>
    /\ UNCHANGED <<state, soundstageControl>>

\* the Enable / Disable button of EQControl
handleToggleEQ ==
    /\ eqControl # Unmounted
    /\ state.isConnected
    /\ IF eqControl.isEQEnabled
       THEN /\ sent' = sendControlCommandSent(disableEQCommand)
            /\ console' = sendControlCommandConsole(disableEQCommand)
            /\ eqControl' = [eqControl EXCEPT !.isEQEnabled = FALSE]
            /\ toasts' = <<"EQ disabled">>
       ELSE /\ sent' = sendControlCommandSent(
                            enableEQCommand(EqProfileOf(state.eqGains,
                                                        state.userPreferences)))
            /\ console' = sendControlCommandConsole(
                            enableEQCommand(EqProfileOf(state.eqGains,
                                                        state.userPreferences)))
            /\ eqControl' = [eqControl EXCEPT !.isEQEnabled = TRUE]
            /\ toasts' = <<"EQ enabled">>
    /\ ControlTask("handleToggleEQ", "eq", NoArg)
    /\ UNCHANGED <<state, soundstageControl>>

\* what the user does on EQControl in this model
GainChanges == {<<0, 120>>, <<30, -120>>}
EqPresetChoices == {"rock", "jazz", "custom"}

NextEQ ==
    \/ MountEQControl
    \/ UnmountEQControl
    \/ \E c \in GainChanges : handleEQGainChange(c[1], c[2])
    \/ \E presetName \in EqPresetChoices : handleEQPresetChange(presetName)
    \/ handleResetEQ
    \/ handleEQSaveProfile
    \/ handleToggleEQ
    \/ updateUserPreferences([bass_preference |-> 50])
    \/ \E s \in DOMAIN sockets : StreamOpen(s)
    \/ \E s \in SocketIds("control") : SocketOpen(s)

SpecEQ == InitApp /\ [][NextEQ]_vars

\* The gains EQControl gives the Store: every preset button, the first, a
\* middle and the last band slider, and Reset.
AllEqPresetChoices == DOMAIN eqPresets \cup {"custom"}
BandChanges == {<<0, 120>>, <<15, -5>>, <<30, -120>>}

NextEQGains ==
    \/ MountEQControl
    \/ UnmountEQControl
    \/ \E c \in BandChanges : handleEQGainChange(c[1], c[2])
    \/ \E presetName \in AllEqPresetChoices : handleEQPresetChange(presetName)
    \/ handleResetEQ
    \/ \E s \in DOMAIN sockets : StreamOpen(s)

SpecEQGains == InitApp /\ [][NextEQGains]_vars
\* SoundstageControl's presets
soundstagePresets ==
    [narrow |-> [stereo_width |-> 30, center_image_strength |-> 80,
                 depth_perception |-> 40, height_perception |-> 30,
                 left_right_balance |-> 50, front_back_positioning |-> 60,
                 spatial_coherence |-> 90],
     wide |-> [stereo_width |-> 80, center_image_strength |-> 40,
               depth_perception |-> 70, height_perception |-> 60,
               left_right_balance |-> 50, front_back_positioning |-> 40,
               spatial_coherence |-> 70],
     immersive |-> [stereo_width |-> 70, center_image_strength |-> 60,
                    depth_perception |-> 80, height_perception |-> 70,
                    left_right_balance |-> 50, front_back_positioning |-> 50,
                    spatial_coherence |-> 80],
     focused |-> [stereo_width |-> 40, center_image_strength |-> 90,
                  depth_perception |-> 50, height_perception |-> 40,
                  left_right_balance |-> 50, front_back_positioning |-> 70,
                  spatial_coherence |-> 95]]

\* the route changes to SoundstageControl, and away from it
MountSoundstageControl ==
    /\ soundstageControl = Unmounted
    /\ acpMounted /\ mounted
    /\ soundstageControl' =
          [isSoundstageEnabled |-> FALSE, selectedPreset |-> "custom",
           soundstageSettings |-> initialSoundstageSettings]
    /\ ControlTask("mountSoundstageControl", "soundstage", NoArg)
    /\ Quiet /\ toasts' = <<>>
    /\ UNCHANGED <<state, eqControl>>
UnmountSoundstageControl ==
    /\ soundstageControl # Unmounted
    /\ soundstageControl' = Unmounted
    /\ ControlTask("unmountSoundstageControl", "soundstage", NoArg)
    /\ Quiet /\ toasts' = <<>>
    /\ UNCHANGED <<state, eqControl>>

\* a slider of SoundstageControl moves: {...soundstageSettings, [setting]: value}
handleSettingChange(setting, value) ==
    /\ soundstageControl # Unmounted
    /\ soundstageControl' =
          [soundstageControl EXCEPT
              !.soundstageSettings = Merge(@, [k \in {setting} |-> value]),
              !.selectedPreset = "custom"]
    /\ ControlTask("handleSettingChange", "soundstage", <<setting, value>>)
    /\ Quiet /\ toasts' = <<>>
    /\ UNCHANGED <<state, eqControl>>

\* a preset button of SoundstageControl
handleSoundstagePresetChange(presetName) ==
    /\ soundstageControl # Unmounted
    /\ soundstageControl' =
          [soundstageControl EXCEPT
              !.selectedPreset = presetName,
              !.soundstageSettings =
                  IF presetName # "custom" THEN soundstagePresets[presetName] ELSE @]
    /\ ControlTask("handlePresetChange", "soundstage", presetName)
    /\ Quiet /\ toasts' = <<>>
    /\ UNCHANGED <<state, eqControl>>

\* Reset of SoundstageControl
handleResetSettings ==
    /\ soundstageControl # Unmounted
    /\ state.isConnected
    /\ soundstageControl' =
          [soundstageControl EXCEPT
              !.soundstageSettings = initialSoundstageSettings,
              !.selectedPreset = "flat"]
    /\ ControlTask("handleResetSettings", "soundstage", NoArg)
    /\ Quiet /\ toasts' = <<"Soundstage settings reset">>
    /\ UNCHANGED <<state, eqControl>>

\* Save Profile of SoundstageControl: the profile goes to the Store
handleSoundstageSaveProfile ==
    /\ soundstageControl # Unmounted
    /\ state.isConnected
    /\ state' = Dispatch(<<Action("SET_SOUNDSTAGE_PROFILE",
                    SoundstageProfileOf(soundstageControl.soundstageSettings))>>)
    /\ ControlTask("handleSaveProfile", "soundstage", NoArg)
    /\ Quiet /\ toasts' = <<"Soundstage profile saved">>
    /\ UNCHANGED controlVars

\* the Enable / Disable button of SoundstageControl
handleToggleSoundstage ==
    /\ soundstageControl # Unmounted
    /\ state.isConnected
    /\ IF soundstageControl.isSoundstageEnabled
       THEN /\ sent' = sendControlCommandSent(disableSoundstageCommand)
            /\ console' = sendControlCommandConsole(disableSoundstageCommand)
            /\ soundstageControl' =
                  [soundstageControl EXCEPT !.isSoundstageEnabled = FALSE]
            /\ toasts' = <<"Soundstage optimization disabled">>
       ELSE /\ sent' = sendControlCommandSent(enableSoundstageCommand(
                    SoundstageProfileOf(soundstageControl.soundstageSettings)))
            /\ console' = sendControlCommandConsole(enableSoundstageCommand(
                    SoundstageProfileOf(soundstageControl.soundstageSettings)))
            /\ soundstageControl' =
                  [soundstageControl EXCEPT !.isSoundstageEnabled = TRUE]
            /\ toasts' = <<"Soundstage optimization enabled">>
    /\ ControlTask("handleToggleSoundstage", "soundstage", NoArg)
    /\ UNCHANGED <<state, eqControl>>

\* what the user does on SoundstageControl in this model
SettingChanges ==
    {<<"stereo_width", 100>>, <<"height_perception", 0>>, <<"depth_perception", 25>>}
SoundstagePresetChoices == {"wide", "focused", "custom"}

NextSoundstage ==
    \/ MountSoundstageControl
    \/ UnmountSoundstageControl
    \/ \E c \in SettingChanges : handleSettingChange(c[1], c[2])
    \/ \E presetName \in SoundstagePresetChoices :
            handleSoundstagePresetChange(presetName)
    \/ handleResetSettings
    \/ handleSoundstageSaveProfile
    \/ handleToggleSoundstage
    \/ \E s \in DOMAIN sockets : StreamOpen(s)
    \/ \E s \in SocketIds("control") : SocketOpen(s)

SpecSoundstage == InitApp /\ [][NextSoundstage]_vars

----------------------------------------------------------------------------
(***************************************************************************)
(* Properties.                                                             *)
(***************************************************************************)
Range(seq) == {seq[i] : i \in DOMAIN seq}
WarnCount(lines) == Cardinality({i \in DOMAIN lines : lines[i][1] = "warn"})

AudioClosed == lastEvent.kind = "close" /\ lastEvent.chan = "audio"
AudioOpened == lastEvent.kind = "open" /\ lastEvent.chan = "audio"

\* C1: a close of the telemetry socket that finds the attempt count k below the
\* cap of 5 leaves exactly the reconnect timer pending, with delay
\* min(1000 * 2^k, 30000) ms, i.e. 1000, 2000, 4000, 8000, 16000 for k = 0..4,
\* and the attempt count at k + 1.
C1_BackoffDelays ==
    (AudioClosed /\ attemptsBefore < 5) =>
        /\ reconnectAttempts = attemptsBefore + 1
        /\ timers = {[id |-> reconnectTimeoutRef,
                      delay |-> <<1000, 2000, 4000, 8000, 16000>>[attemptsBefore + 1],
                      callback |-> "connectAudioWebSocket"]}
        /\ \A t \in timers : t.delay = Min(1000 * Pow2(attemptsBefore), 30000)

\* the fifth consecutive failure: the timer is set for 16000 ms
C1_Witness ==
    /\ AudioClosed
    /\ ~lastEvent.arg.planned
    /\ attemptsBefore = 4
    /\ reconnectAttempts = 5
    /\ \E t \in timers : t.delay = 16000

\* C2: after the open event of a telemetry socket the attempt count is 0,
\* whatever it was before.
C2_OpenResetsAttempts == AudioOpened => reconnectAttempts = 0

\* the socket of the fifth reconnect opens: the count was 5
C2_Witness == AudioOpened /\ attemptsBefore = 5 /\ reconnectAttempts = 0

\* the telemetry channel has given up: count at the cap, no timer, no socket
PersistentFailure ==
    /\ reconnectAttempts = 5
    /\ timers = {}
    /\ \A s \in SocketIds("audio") : sockets[s].readyState = "CLOSED"

\* C3: a close of the telemetry socket that finds the attempt count at the cap
\* of 5 sets no timer and raises the notice 'Failed to reconnect to audio
\* server', which leaves the channel in persistent failure; and from persistent
\* failure no step leaves it or constructs a telemetry socket.
C3_StopsAtCap ==
    [][/\ (AudioClosed' /\ attemptsBefore' = 5) =>
            /\ timers' = {}
            /\ "Failed to reconnect to audio server" \in Range(toasts')
            /\ PersistentFailure'
       /\ PersistentFailure =>
            /\ PersistentFailure'
            /\ Len(sockets') = Len(sockets)]_vars

\* the sixth telemetry socket has failed without an open in between
C3_Witness ==
    /\ AudioClosed
    /\ ~lastEvent.arg.planned
    /\ attemptsBefore = 5
    /\ PersistentFailure
    /\ Cardinality(SocketIds("audio")) = 6

\* C4: after an unplanned close of the control socket a reconnect of the control
\* channel is scheduled.
C4_ControlReconnectScheduled ==
    (lastEvent.kind = "close" /\ lastEvent.chan = "control" /\ ~lastEvent.arg.planned) =>
        \E t \in timers : t.callback = "connectControlWebSocket"

\* C5: an open, message, close or reconnect-timer task of the telemetry channel
\* leaves isConnected, controlWsRef, activeConnections and the control sockets
\* as they are; an open, message or close task of the control channel leaves
\* connectionStatus, audioWsRef, lastMessage, the attempt count, the reconnect
\* timer and the telemetry sockets as they are.
C5_ChannelsIndependent ==
    [][/\ (lastEvent'.chan = "audio"
             /\ lastEvent'.kind \in {"open", "message", "close", "timer"}) =>
            /\ UNCHANGED <<isConnected, controlWsRef, activeConnections>>
            /\ \A s \in SocketIds("control") : sockets'[s] = sockets[s]
       /\ (lastEvent'.chan = "control"
             /\ lastEvent'.kind \in {"open", "message", "close"}) =>
            /\ UNCHANGED <<connectionStatus, audioWsRef, lastMessage,
                           reconnectAttempts, reconnectTimeoutRef, timers>>
            /\ \A s \in SocketIds("audio") : sockets'[s] = sockets[s]
            /\ Len(sockets') = Len(sockets)]_vars

\* the control socket fails while the telemetry channel is in its third retry
C5_Witness ==
    /\ lastEvent.kind = "close"
    /\ lastEvent.chan = "control"
    /\ reconnectAttempts = 3
    /\ timers # {}
    /\ connectionStatus = "disconnected"

\* C6: once the provider has unmounted and the sockets its cleanup closed have
\* had their close events, no timer is pending, the ping interval is cleared
\* and every socket is closed.
C6_TeardownLeavesNothing ==
    (~mounted /\ \A s \in DOMAIN sockets : sockets[s].readyState # "CLOSING") =>
        /\ timers = {}
        /\ ~pingIntervalActive
        /\ \A s \in DOMAIN sockets : sockets[s].readyState = "CLOSED"

\* C7: a command called while the control channel is not connected (the flag
\* is false or the ref holds no open socket) transmits nothing, writes exactly
\* one warning, throws nothing and changes nothing of the provider or its
\* sockets and timers.
C7_CommandWhileDisconnected ==
    [][(lastEvent'.kind \in ControlCommands
          /\ (~isConnected \/ ~IsOpen(controlWsRef))) =>
            /\ sent' = <<>>
            /\ WarnCount(console') = 1
            /\ Len(console') = 1
            /\ ~thrown'
            /\ UNCHANGED <<browserVars, wsVars>>]_vars

\* set_preferences is called after the control socket has closed
C7_Witness ==
    /\ lastEvent.kind = "set_preferences"
    /\ controlWsRef = NULL
    /\ ~isConnected
    /\ sent = <<>>
    /\ console = <<<<"warn", "Control WebSocket not connected">>>>

\* the frame a call hands to send(): the command's envelope, the plain string,
\* or the audio data
IsFrameOf(frame, ev) ==
    CASE ev.kind \in ControlCommands -> frame.kind = "json" /\ frame.data.type = ev.kind
      [] ev.kind \in TextCommands -> frame.kind = "text" /\ frame.data = ev.kind
      [] ev.kind = "heartbeat" -> frame.kind = "text" /\ frame.data = "ping"
      [] ev.kind = "sendAudioData" ->
            IF ev.arg = Undefined
            THEN frame.kind = "text" /\ frame.data = "undefined"
            ELSE frame.kind = "json" /\ frame.data = ev.arg
      [] OTHER -> FALSE

ChannelRef(chan) == IF chan = "control" THEN controlWsRef ELSE audioWsRef

\* C8: whatever a task transmits is the one frame of the call made in that very
\* task, on its channel's socket, which was open when the task started; a call
\* made while its channel's socket is not open transmits nothing, and no socket
\* event or timer (a reconnect among them) transmits anything.
C8_NoQueuing ==
    [][/\ sent' # <<>> =>
            /\ Len(sent') = 1
            /\ IsFrameOf(sent'[1], lastEvent')
            /\ sent'[1].sock = ChannelRef(lastEvent'.chan)
            /\ sent'[1].sock \in DOMAIN sockets
            /\ sockets[sent'[1].sock].readyState = "OPEN"
            /\ sockets[sent'[1].sock].chan = lastEvent'.chan
       /\ (lastEvent'.kind \in ControlCommands \cup TextCommands \cup {"sendAudioData"}
             /\ ~IsOpen(ChannelRef(lastEvent'.chan))) => sent' = <<>>
       /\ lastEvent'.kind \in {"open", "message", "close", "timer", "teardown"} =>
            sent' = <<>>]_vars

\* get_status goes out on a telemetry socket made by a reconnect
C8_Witness ==
    /\ lastEvent.kind = "get_status"
    /\ sent = <<TextFrame(audioWsRef, "get_status")>>
    /\ audioWsRef > 2

\* range validation of an EQ profile: each gain clamped to [-12, +12] dB
RangeValidated(profile) ==
    [profile EXCEPT !.gains =
        [i \in DOMAIN profile.gains |->
            IF profile.gains[i] > 120 THEN 120
            ELSE IF profile.gains[i] < -120 THEN -120 ELSE profile.gains[i]]]

\* C9: with the control socket open, enable_eq(profile) transmits exactly one
\* frame, on the control socket, of type enable_eq, whose eq_profile is the
\* supplied profile after range validation.
C9_EnableEqSendsValidatedProfile ==
    (lastEvent.kind = "enable_eq" /\ IsOpen(controlWsRef)
        /\ lastEvent.arg # Undefined) =>
            /\ Len(sent) = 1
            /\ sent[1].sock = controlWsRef
            /\ sent[1].kind = "json"
            /\ sent[1].data.type = "enable_eq"
            /\ sent[1].data.eq_profile = RangeValidated(lastEvent.arg)

\* the dispatch table of the handler behind each socket
DispatchTable(chan) == IF chan = "control" THEN ControlTypes ELSE AudioTypes

UnknownTypeMessage(ev) ==
    /\ ev.kind = "message"
    /\ ev.arg.wf
    /\ IsEnvelope(ev.arg.value)
    /\ ev.arg.value.type \notin DispatchTable(ev.chan)

\* C10: a message task of any of the three sockets whose envelope carries a
\* type outside that socket's dispatch table leaves the Store as it is, ends
\* without an exception and leaves every socket (the receiving one included) in
\* its ready state.
C10_UnknownTypeIgnored ==
    [][UnknownTypeMessage(lastEvent') =>
            /\ state' = state
            /\ ~thrown'
            /\ sockets' = sockets
            /\ sockets'[lastEvent'.sock].readyState = "OPEN"]_vars

\* an unknown tag arrives with a result-shaped payload after the Store has taken
\* a real result
C10_Witness ==
    /\ UnknownTypeMessage(lastEvent)
    /\ lastEvent.chan = "stream"
    /\ lastEvent.arg.value.type = "telemetry_v2"
    /\ lastEvent.arg.value.data = ResultWide
    /\ state.analysisResults = ResultNoisy
    /\ state.realTimeData.stereoWidth = 50

\* C11: a message event whose payload is not JSON, on any of the three sockets,
\* is caught and dropped: the Store and the provider's state are as before, no
\* exception leaves the handler, every socket keeps its readyState (the one
\* that received it stays OPEN), and the reconnect attempt count, the timer
\* handle and the pending timers are untouched; the failure is logged.
C11_MalformedDiscarded ==
    [][(lastEvent'.kind = "message" /\ ~lastEvent'.arg.wf) =>
            /\ state' = state
            /\ ~thrown'
            /\ sockets' = sockets
            /\ sockets'[lastEvent'.sock].readyState = "OPEN"
            /\ reconnectAttempts' = reconnectAttempts
            /\ reconnectTimeoutRef' = reconnectTimeoutRef
            /\ timers' = timers
            /\ lastMessage' = lastMessage
            /\ UNCHANGED <<isConnected, connectionStatus, activeConnections>>
            /\ toasts' = <<>>
            /\ Len(console') = 1 /\ console'[1][1] = "error"]_vars

\* a malformed payload has arrived on the Store's socket after a result was
\* stored, and the Store still holds it and still shows the connection
C11_Witness ==
    /\ lastEvent.kind = "message" /\ lastEvent.chan = "stream"
    /\ ~lastEvent.arg.wf
    /\ state.isConnected
    /\ state.analysisResults = ResultWide
    /\ sockets[lastEvent.sock].readyState = "OPEN"

\* C12: in every reachable state eqGains has as many entries as the frequency
\* table, 31, whatever payload update-eq-gains was given.
C12_EqGainsLength ==
    /\ Len(state.eqGains) = Len(state.frequencyBands)
    /\ Len(state.eqGains) = 31

\* C13: update-preferences with a payload of one known field sets that field
\* of userPreferences and changes nothing else in the Store.
C13_SingleFieldUpdate ==
    [][\A k \in DOMAIN initialUserPreferences :
          (lastEvent'.kind = "updateUserPreferences" /\ DOMAIN lastEvent'.arg = {k}) =>
              state' = [state EXCEPT !.userPreferences =
                            [state.userPreferences EXCEPT ![k] = lastEvent'.arg[k]]]]_vars

\* bass_preference has been updated alone, after speaker_count had been moved
\* off its default and gains and a result were in the Store
C13_Witness ==
    /\ lastEvent.kind = "updateUserPreferences"
    /\ lastEvent.arg = [bass_preference |-> 50]
    /\ stateBefore.userPreferences.bass_preference = 0
    /\ stateBefore.userPreferences.speaker_count = 4
    /\ state.userPreferences.bass_preference = 50
    /\ state.userPreferences.speaker_count = 4
    /\ state.eqGains = presetsRock
    /\ state.analysisResults = ResultWide

\* C15: reset sets audioData and analysisResults to null and isAnalyzing and
\* isProcessing to false, and leaves eqGains, eqProfile, soundstageProfile and
\* userPreferences (and every other field) as they were.
C15_ResetFrame ==
    [][lastEvent'.kind = "resetAudioState" =>
          /\ state'.audioData = JsonNull
          /\ state'.analysisResults = JsonNull
          /\ state'.isAnalyzing = FALSE
          /\ state'.isProcessing = FALSE
          /\ state'.eqGains = state.eqGains
          /\ state'.eqProfile = state.eqProfile
          /\ state'.soundstageProfile = state.soundstageProfile
          /\ state'.userPreferences = state.userPreferences
          /\ state'.isConnected = state.isConnected
          /\ state'.frequencyBands = state.frequencyBands
          /\ state'.realTimeData = state.realTimeData]_vars

\* a reset has run on a Store that was analysing, held a result, and had gains,
\* both profiles and preferences off their initial values
C15_Witness ==
    /\ lastEvent.kind = "resetAudioState"
    /\ stateBefore.isAnalyzing
    /\ stateBefore.analysisResults = ResultWide
    /\ state.analysisResults = JsonNull
    /\ ~state.isAnalyzing
    /\ state.eqGains = presetsRock
    /\ state.eqProfile # JsonNull
    /\ state.soundstageProfile # JsonNull
    /\ state.userPreferences # initialUserPreferences

\* C20: after an analysis_result message has been handled, analysisResults is
\* the message's data and nothing else.
C20_ResultReplacedWholesale ==
    [][(/\ lastEvent'.kind = "message" /\ lastEvent'.chan = "stream"
        /\ lastEvent'.arg.wf
        /\ IsEnvelope(lastEvent'.arg.value)
        /\ lastEvent'.arg.value.type = "analysis_result"
        /\ acpMounted) =>
            state'.analysisResults = lastEvent'.arg.value.data]_vars

\* a result without an acoustic_profile has replaced one that had it
C20_Witness ==
    /\ lastEvent.kind = "message" /\ lastEvent.chan = "stream"
    /\ lastEvent.arg = Frame(Envelope("analysis_result", ResultBare))
    /\ "acoustic_profile" \in DOMAIN stateBefore.analysisResults
    /\ state.analysisResults = ResultBare
    /\ "acoustic_profile" \notin DOMAIN state.analysisResults

\* C16: a heartbeat tick that finds the telemetry channel connected sends one
\* ping on the telemetry socket, whatever the state of the control channel.
C16_HeartbeatWhileTelemetryConnected ==
    [][(/\ lastEvent'.kind = "heartbeat"
        /\ connectionStatus = "connected"
        /\ IsOpen(audioWsRef)) =>
            sent' = <<TextFrame(audioWsRef, "ping")>>]_vars

\* C17: a heartbeat tick, whether or not it sends a ping, leaves the reconnect
\* attempt count, the reconnect timer and its handle, and every socket as they
\* were.
C17_HeartbeatLeavesReconnectAlone ==
    [][lastEvent'.kind = "heartbeat" =>
          /\ reconnectAttempts' = reconnectAttempts
          /\ timers' = timers
          /\ nextTimerId' = nextTimerId
          /\ reconnectTimeoutRef' = reconnectTimeoutRef
          /\ sockets' = sockets
          /\ audioWsRef' = audioWsRef
          /\ controlWsRef' = controlWsRef
          /\ connectionStatus' = connectionStatus
          /\ isConnected' = isConnected]_vars

\* a tick has called ping() while the telemetry socket was down, a reconnect
\* timer was pending and attempts had been counted: the ping was missed
C17_Witness ==
    /\ lastEvent.kind = "heartbeat"
    /\ isConnected
    /\ sent = <<>>
    /\ ~IsOpen(audioWsRef)
    /\ reconnectAttempts > 1
    /\ \E t \in timers : t.id = reconnectTimeoutRef

\* C14: after any sequence of preference updates the keys of userPreferences
\* are exactly the 12 documented fields: unknown keys of a payload are ignored.
C14_PreferenceKeysFixed ==
    DOMAIN state.userPreferences = DOMAIN initialUserPreferences

\* the set_preferences frames handed to the control socket by the last task
SetPreferencesFrames ==
    {sent[i].data.preferences : i \in
        {j \in DOMAIN sent : /\ sockets[sent[j].sock].chan = "control"
                             /\ sent[j].kind = "json"
                             /\ sent[j].data.type = "set_preferences"}}

\* the documented ranges, in hundredths
InDocumentedRanges(prefs) ==
    /\ \A k \in {"bass_preference", "treble_preference", "vocal_clarity"}
                \cap DOMAIN prefs : prefs[k] \in -100..100
    /\ \A k \in {"soundstage_width", "height_preference", "depth_preference"}
                \cap DOMAIN prefs : prefs[k] \in 0..100
    /\ \A k \in {"speaker_count"} \cap DOMAIN prefs : prefs[k] \in {2, 4, 6, 8}

\* C18: every set_preferences message sent carries its scalars inside their
\* documented ranges, whatever the editable state was (imported or not).
C18_SentPreferencesInRange ==
    \A prefs \in SetPreferencesFrames : InDocumentedRanges(prefs)

\* C19: every set_preferences message sent carries all 12 documented fields of
\* UserPreferences, also after a profile import replaced the editable state.
C19_SentPreferencesComplete ==
    \A prefs \in SetPreferencesFrames :
        DOMAIN initialUserPreferences \subseteq DOMAIN prefs

\* the acoustic_profile of a result message, when the message carries one
MetricsPayload(ev) == Spread(Get(ev.arg.value.data, "acoustic_profile"))

\* C21: handling a result message merges its metrics field by field: every
\* realTimeData field the payload carries takes the payload's value, every
\* other field keeps the value it had, and no field is lost.
C21_MetricsFieldMerge ==
    [][(/\ lastEvent'.kind = "message" /\ lastEvent'.chan = "stream"
        /\ lastEvent'.arg.wf
        /\ IsEnvelope(lastEvent'.arg.value)
        /\ lastEvent'.arg.value.type = "analysis_result"
        /\ lastEvent'.arg.value.data # Undefined
        /\ acpMounted) =>
            /\ DOMAIN state'.realTimeData =
                    DOMAIN state.realTimeData \cup DOMAIN MetricsPayload(lastEvent')
            /\ \A k \in DOMAIN MetricsPayload(lastEvent') :
                    state'.realTimeData[k] = MetricsPayload(lastEvent')[k]
            /\ \A k \in DOMAIN state.realTimeData \ DOMAIN MetricsPayload(lastEvent') :
                    state'.realTimeData[k] = state.realTimeData[k]]_vars

\* a message carrying noiseFloor and thd has been merged into metrics whose
\* stereoWidth came from an earlier message: each field holds the value of
\* the last message that carried it
C21_Witness ==
    /\ lastEvent.kind = "message" /\ lastEvent.chan = "stream"
    /\ lastEvent.arg = Frame(Envelope("analysis_result", ResultNoisy))
    /\ stateBefore.realTimeData.stereoWidth = 80
    /\ stateBefore.realTimeData.noiseFloor = -60
    /\ state.realTimeData.stereoWidth = 80
    /\ state.realTimeData.noiseFloor = -50
    /\ state.realTimeData.thd = 1

\* the inbound types that only notify
NotifyOnlyTypes ==
    {"error", "preferences_updated", "eq_enabled", "eq_disabled",
     "soundstage_enabled", "soundstage_disabled", "processed_audio", "optimized_audio"}

\* C27: handling an inbound message of type error, preferences_updated,
\* eq_enabled, eq_disabled, soundstage_enabled, soundstage_disabled,
\* processed_audio or optimized_audio, on any socket, leaves the Store as it
\* was and raises no exception.
C27_NotifyOnlyMessages ==
    [][(/\ lastEvent'.kind = "message"
        /\ lastEvent'.arg.wf
        /\ IsEnvelope(lastEvent'.arg.value)
        /\ lastEvent'.arg.value.type \in NotifyOnlyTypes) =>
            /\ state' = state
            /\ ~thrown']_vars

\* an error message has been handled by the Store's router while the Store
\* held a result: the notice is raised and the result is still there
C27_Witness ==
    /\ lastEvent.kind = "message" /\ lastEvent.chan = "stream"
    /\ lastEvent.arg.wf /\ IsEnvelope(lastEvent.arg.value)
    /\ lastEvent.arg.value.type = "error"
    /\ toasts = <<"error: message">>
    /\ state.analysisResults = ResultWide
    /\ state.isConnected

\* C26: once AudioContextProvider has been torn down, no audio-stream socket
\* is open or connecting and no 3-second reconnect is pending (so none is
\* created later).
C26_StoreTeardownLeavesNothing ==
    ~acpMounted =>
        /\ \A s \in SocketIds("stream") : ~Live(s)
        /\ \A t \in timers : t.callback # "connectWebSocket"

\* C23: from persistent failure of the telemetry channel (count at the cap, no
\* timer, no socket) the mounted provider can be told to connect again: some
\* step resets the attempt count to 0 and has a telemetry socket connecting.
C23_ManualConnectLeavesFailure ==
    (PersistentFailure /\ mounted) =>
        ENABLED (/\ NextWS
                 /\ reconnectAttempts' = 0
                 /\ audioWsRef' # NULL)

\* C25: a close of the telemetry socket that finds the attempt count below the
\* cap adds exactly one reconnect timer, whether or not an error event came
\* with it, and never more than one reconnect timer is pending.
C25_OneReconnectPerClose ==
    /\ [](Cardinality(timers) <= 1)
    /\ [][(/\ lastEvent'.kind = "close" /\ lastEvent'.chan = "audio"
            /\ reconnectAttempts < 5) =>
                /\ Cardinality(timers') = 1
                /\ timers = {}
                /\ reconnectAttempts' = reconnectAttempts + 1]_vars

\* a telemetry socket that had opened has failed with an error event and a
\* close event, after earlier failures: one timer is pending
C25_Witness ==
    /\ AudioClosed
    /\ lastEvent.arg.withError /\ ~lastEvent.arg.planned
    /\ lastEvent.sock > 2
    /\ Cardinality(timers) = 1
    /\ toasts = <<"Audio WebSocket connection error">>
    /\ mounted

\* C30: the frames of an enveloped command go to the control socket and are
\* JSON envelopes of that command; the frames of ping, get_status,
\* toggle_analysis, clear_buffer and the heartbeat go to the telemetry socket
\* and are that plain string.
C30_CommandsOnTheirChannel ==
    \A i \in DOMAIN sent :
        /\ lastEvent.kind \in ControlCommands =>
                /\ sockets[sent[i].sock].chan = "control"
                /\ sent[i].kind = "json"
                /\ sent[i].data.type = lastEvent.kind
        /\ lastEvent.kind \in TextCommands \cup {"heartbeat"} =>
                /\ sockets[sent[i].sock].chan = "audio"
                /\ sent[i].kind = "text"
                /\ sent[i].data \in TextCommands
        /\ (sent[i].kind = "text" /\ sent[i].data \in TextCommands) =>
                sockets[sent[i].sock].chan = "audio"

\* get_connection_info has gone out while both sockets were open
C30_Witness ==
    /\ lastEvent.kind = "get_connection_info"
    /\ IsOpen(audioWsRef) /\ IsOpen(controlWsRef)
    /\ sent = <<JsonFrame(controlWsRef, getConnectionInfoCommand)>>

\* the field or sub-object each named Store operation is documented to change
DocumentedFields(type) ==
    CASE type = "SET_CONNECTION_STATUS" -> {"isConnected"}
      [] type = "SET_ANALYZING" -> {"isAnalyzing"}
      [] type = "SET_PROCESSING" -> {"isProcessing"}
      [] type = "SET_AUDIO_DATA" -> {"audioData"}
      [] type = "SET_ANALYSIS_RESULTS" -> {"analysisResults"}
      [] type = "SET_EQ_PROFILE" -> {"eqProfile"}
      [] type = "SET_SOUNDSTAGE_PROFILE" -> {"soundstageProfile"}
      [] type = "UPDATE_USER_PREFERENCES" -> {"userPreferences"}
      [] type = "UPDATE_EQ_GAINS" -> {"eqGains"}
      [] type = "UPDATE_REAL_TIME_DATA" -> {"realTimeData"}
      [] type = "RESET_AUDIO_STATE" ->
            {"audioData", "analysisResults", "isAnalyzing", "isProcessing"}
      [] OTHER -> {}

\* C22: every Store operation leaves every Store field outside its documented
\* field or sub-object as it was (and the Store keeps its fields); an action of
\* a type the reducer does not name leaves the whole Store as it was.
C22_OperationsFrame ==
    [][lastEvent'.kind = "dispatch" =>
          /\ DOMAIN state' = DOMAIN state
          /\ \A f \in DOMAIN state \ DocumentedFields(lastEvent'.arg.type) :
                  state'[f] = state[f]]_vars

\* an action of unknown type has been dispatched to a Store that is connected,
\* holds a result and has gains and preferences off their defaults, and the
\* Store is what it was
C22_Witness ==
    /\ lastEvent.kind = "dispatch"
    /\ lastEvent.arg.type = "REPLACE_STATE"
    /\ state = stateBefore
    /\ state.isConnected
    /\ state.analysisResults = ResultWide
    /\ state.eqGains = presetsRock
    /\ state.userPreferences.bass_preference = 50

\* C24: after an unplanned close of the telemetry socket that found the
\* attempt count below the cap, and while the provider stays mounted, the
\* reconnect timer fires and a new telemetry socket is connecting; and when a
\* telemetry socket of the mounted provider opens, the channel is Connected
\* with the attempt count at 0.  (The model stops constructing sockets at
\* MaxAudioSockets; the close of the last one is left out.)
C24_SelfHeals ==
    /\ (/\ AudioClosed /\ ~lastEvent.arg.planned
        /\ attemptsBefore < 5
        /\ mounted
        /\ Cardinality(SocketIds("audio")) < MaxAudioSockets)
          ~> (\/ ~mounted
              \/ /\ lastEvent.kind = "timer"
                 /\ audioWsRef # NULL
                 /\ sockets[audioWsRef].readyState = "CONNECTING")
    /\ [][(lastEvent'.kind = "open" /\ lastEvent'.chan = "audio" /\ mounted) =>
              /\ connectionStatus' = "connected"
              /\ reconnectAttempts' = 0]_vars

\* a socket constructed by the reconnect timer, after two failures, has
\* opened: the channel is Connected again and the count is back at 0
C24_Witness ==
    /\ AudioOpened
    /\ lastEvent.sock > 2
    /\ attemptsBefore = 2
    /\ reconnectAttempts = 0
    /\ connectionStatus = "connected"
    /\ timers = {}

\* C28: when the Enable button of EQControl sends, it sends one enable_eq
\* message whose profile holds the Store's 31-entry frequency table, the
\* Store's eqGains of that moment, 31 Q-factors of 1.0, 31 filter types
\* 'peaking', the Store's userPreferences of that moment and an empty
\* acoustic_compensation object.
C28_EnableEqProfile ==
    [][(/\ lastEvent'.kind = "handleToggleEQ"
        /\ ~eqControl.isEQEnabled
        /\ IsOpen(controlWsRef)) =>
            /\ Len(sent') = 1
            /\ sent'[1].sock = controlWsRef
            /\ sent'[1].data.type = "enable_eq"
            /\ LET profile == sent'[1].data.eq_profile IN
                  /\ DOMAIN profile =
                        {"name", "frequency_bands", "gains", "q_factors",
                         "filter_types", "user_preferences", "acoustic_compensation"}
                  /\ profile.frequency_bands = state.frequencyBands
                  /\ Len(profile.frequency_bands) = 31
                  /\ profile.gains = state.eqGains
                  /\ profile.q_factors = [i \in 1..31 |-> 1]
                  /\ profile.filter_types = [i \in 1..31 |-> "peaking"]
                  /\ profile.user_preferences = state.userPreferences
                  /\ DOMAIN profile.acoustic_compensation = {}]_vars

\* EQ has been enabled on an open control socket with gains and preferences
\* that had both been changed since the start
C28_Witness ==
    /\ lastEvent.kind = "handleToggleEQ"
    /\ eqControl # Unmounted /\ eqControl.isEQEnabled
    /\ Len(sent) = 1
    /\ sent[1].data.eq_profile.gains = [presetsRock EXCEPT ![1] = 120]
    /\ sent[1].data.eq_profile.user_preferences.bass_preference = 50

\* the seven soundstage scalars
SoundstageScalars ==
    {"stereo_width", "center_image_strength", "depth_perception",
     "height_perception", "left_right_balance", "front_back_positioning",
     "spatial_coherence"}

\* C29: when the Enable button of SoundstageControl sends, it sends one
\* enable_soundstage message whose profile holds the seven scalars of the
\* current settings, the crosstalk and per-ear vectors, and a
\* spatial_enhancement with width_factor = stereo_width, height_factor =
\* height_perception and depth_factor = depth_perception.
C29_EnableSoundstageProfile ==
    [][(/\ lastEvent'.kind = "handleToggleSoundstage"
        /\ ~soundstageControl.isSoundstageEnabled
        /\ IsOpen(controlWsRef)) =>
            /\ Len(sent') = 1
            /\ sent'[1].sock = controlWsRef
            /\ sent'[1].data.type = "enable_soundstage"
            /\ LET profile == sent'[1].data.soundstage_profile
                   settings == soundstageControl.soundstageSettings IN
                  /\ DOMAIN profile = SoundstageScalars \cup
                        {"crosstalk_compensation", "hrtf_compensation"}
                  /\ \A k \in SoundstageScalars : profile[k] = settings[k]
                  /\ profile.crosstalk_compensation = [i \in 1..32 |-> 0]
                  /\ DOMAIN profile.hrtf_compensation =
                        {"left_ear_compensation", "right_ear_compensation",
                         "spatial_enhancement"}
                  /\ profile.hrtf_compensation.left_ear_compensation = [i \in 1..32 |-> 0]
                  /\ profile.hrtf_compensation.right_ear_compensation = [i \in 1..32 |-> 0]
                  /\ profile.hrtf_compensation.spatial_enhancement =
                        [width_factor |-> settings.stereo_width,
                         height_factor |-> settings.height_perception,
                         depth_factor |-> settings.depth_perception]]_vars

\* soundstage has been enabled on an open control socket with settings made
\* of a preset and a slider moved afterwards
C29_Witness ==
    /\ lastEvent.kind = "handleToggleSoundstage"
    /\ soundstageControl # Unmounted /\ soundstageControl.isSoundstageEnabled
    /\ Len(sent) = 1
    /\ sent[1].data.soundstage_profile.stereo_width = 80
    /\ sent[1].data.soundstage_profile.height_perception = 0
    /\ sent[1].data.soundstage_profile.hrtf_compensation.spatial_enhancement
            = [width_factor |-> 80, height_factor |-> 0, depth_factor |-> 70]

\* the Store after the updates of one inbound message of the audio-stream socket,
\* applied in order to st: the result replaced, then the metrics merged
AfterMessage(st, m) ==
    IF ~m.wf \/ ~IsEnvelope(m.value) THEN st
    ELSE IF m.value.type # "analysis_result" THEN st
    ELSE IF m.value.data = Undefined
         THEN [st EXCEPT !.analysisResults = Undefined]
         ELSE [st EXCEPT !.analysisResults = m.value.data,
                         !.realTimeData =
                             Merge(@, Get(m.value.data, "acoustic_profile"))]

\* C31: each message task of the audio-stream socket takes the Store from the
\* state the previous task left to that state with all of this message's
\* updates applied (the result replaced and the metrics merged, together), so
\* messages take effect one after the other in arrival order; a timer or a
\* task of another socket changes nothing in the Store.
C31_InOrderContiguous ==
    [][/\ (lastEvent'.kind = "message" /\ lastEvent'.chan = "stream" /\ acpMounted) =>
            state' = AfterMessage(state, lastEvent'.arg)
       /\ (lastEvent'.kind = "timer" \/ lastEvent'.chan \in {"audio", "control"}) =>
            state' = state]_vars

\* a second result has arrived after a first: the Store holds the second
\* result, its metrics, and the first one's metric the second did not name
C31_Witness ==
    /\ lastEvent.kind = "message" /\ lastEvent.chan = "stream"
    /\ lastEvent.arg = Frame(Envelope("analysis_result", ResultNoisy))
    /\ stateBefore.analysisResults = ResultWide
    /\ stateBefore.realTimeData.stereoWidth = 80
    /\ state.analysisResults = ResultNoisy
    /\ state.realTimeData.stereoWidth = 80
    /\ state.realTimeData.noiseFloor = -50
    /\ state.realTimeData.thd = 1

\* C32: in every reachable state the telemetry reconnect attempt count is an
\* integer from 0 to the cap of 5.
C32_AttemptsWithinCap ==
    /\ reconnectAttempts \in Int
    /\ 0 <= reconnectAttempts
    /\ reconnectAttempts <= 5

\* the telemetry socket closes with the count already at the cap, and the
\* count stays there
C32_Witness ==
    /\ lastEvent.kind = "close" /\ lastEvent.chan = "audio"
    /\ lastEvent.arg.withError
    /\ attemptsBefore = 5
    /\ reconnectAttempts = 5

\* C33: an analysis_result message, whatever its envelope, either replaces
\* analysisResults and merges the metrics without an error, or leaves the Store
\* exactly as it was.
C33_ResultAllOrNothing ==
    (/\ lastEvent.kind = "message" /\ lastEvent.chan = "stream"
     /\ lastEvent.arg.wf
     /\ IsEnvelope(lastEvent.arg.value)
     /\ lastEvent.arg.value.type = "analysis_result") =>
        \/ state = stateBefore
        \/ /\ console = <<>>
           /\ lastEvent.arg.value.data # Undefined
           /\ state = [stateBefore EXCEPT
                          !.analysisResults = lastEvent.arg.value.data,
                          !.realTimeData =
                              Merge(@, Get(lastEvent.arg.value.data, "acoustic_profile"))]

\* C34: while the provider is mounted, isConnected is true exactly when
\* controlWsRef refers to an open socket, also after the provider's effects
\* have been torn down and run again; so a command issued while isConnected is
\* true is transmitted.
C34_FlagMatchesControlRef ==
    mounted =>
        /\ isConnected <=> IsOpen(controlWsRef)
        /\ (lastEvent.kind = "get_connection_info" /\ isConnected) => Len(sent) = 1

LiveTelemetry == {s \in SocketIds("audio") : Live(s)}
ReconnectTimers == {t \in timers : t.callback = "connectAudioWebSocket"}

\* C35, with a closing socket counted as not live: at most one telemetry
\* socket is open or connecting, no reconnect timer is pending while one is,
\* and audioWsRef is null exactly when no telemetry socket is open or
\* connecting.
C35_OneLiveTelemetrySocket ==
    /\ Cardinality(LiveTelemetry) <= 1
    /\ LiveTelemetry # {} => ReconnectTimers = {}
    /\ audioWsRef = NULL <=> LiveTelemetry = {}

\* C35: at most one telemetry socket is open or connecting, no
\* reconnect timer is pending while one is, and audioWsRef is null exactly
\* when no telemetry socket is connecting, open or closing: it names the one
\* such socket, which teardown's close() leaves referenced until its close
\* event.
C35_OneTelemetrySocketReferenced ==
    /\ Cardinality(LiveTelemetry) <= 1
    /\ LiveTelemetry # {} => ReconnectTimers = {}
    /\ audioWsRef = NULL <=>
          \A s \in SocketIds("audio") : sockets[s].readyState = "CLOSED"
    /\ audioWsRef # NULL =>
          /\ sockets[audioWsRef].chan = "audio"
          /\ \A s \in SocketIds("audio") :
                sockets[s].readyState # "CLOSED" => s = audioWsRef

\* the provider is torn down while the socket of its second reconnect is
\* connecting: the ref still names that socket, now closing, and no telemetry
\* socket is open or connecting
C35_Witness ==
    /\ lastEvent.kind = "teardown"
    /\ reconnectAttempts = 2
    /\ Cardinality(SocketIds("audio")) = 3
    /\ audioWsRef # NULL
    /\ sockets[audioWsRef].readyState = "CLOSING"
    /\ LiveTelemetry = {}
    /\ timers = {}

\* the frames of the last task that carry an EQ command
EqCommandsSent ==
    {sent[i].data.type : i \in {j \in DOMAIN sent : sent[j].kind = "json"}}
        \cap {"enable_eq", "disable_eq"}

\* C36: after every toggle of EQControl the flag agrees with what went out on
\* the control channel: isEQEnabled true means the toggle transmitted an
\* enable_eq, false means it transmitted a disable_eq.
C36_EqFlagMatchesSent ==
    (lastEvent.kind = "handleToggleEQ" /\ eqControl # Unmounted) =>
        IF eqControl.isEQEnabled
        THEN EqCommandsSent = {"enable_eq"}
        ELSE EqCommandsSent = {"disable_eq"}

StreamTimers == {t \in timers : t.callback = "connectWebSocket"}

\* C37: the reconnect timers of AudioContextProvider's audio-stream socket
\* follow the telemetry channel's policy: each delay is min(1000 * 2^k, 30000)
\* for an attempt count k below the cap of 5, and the close of the first socket
\* (k = 0) sets a delay of 1000 ms.
C37_StreamFollowsBackoff ==
    /\ \A t \in StreamTimers :
          t.delay \in {ReconnectDelay(k) : k \in 0..(maxReconnectAttempts - 1)}
    /\ (lastEvent.kind = "close" /\ lastEvent.chan = "stream"
          /\ Cardinality(SocketIds("stream")) = 1) =>
            \A t \in StreamTimers : t.delay = ReconnectDelay(0)

\* C38: with EQControl the only caller of update-eq-gains (its band sliders
\* 0..30, all its presets and its Reset), eqGains has 31 entries in every
\* reachable state.
C38_EqControlKeepsLength ==
    /\ DOMAIN state.eqGains = 1..31
    /\ lastEvent.kind \in {"handleEQGainChange", "handlePresetChange", "handleResetEQ"} =>
          Len(state.eqGains) = Len(stateBefore.eqGains)

\* the last band slider has been moved on top of the electronic preset
C38_Witness ==
    /\ lastEvent.kind = "handleEQGainChange"
    /\ lastEvent.arg = <<30, -120>>
    /\ stateBefore.eqGains = presetsElectronic
    /\ state.eqGains[31] = -120
    /\ state.eqGains[1] = 30
    /\ Len(state.eqGains) = 31

\* C39: while ProfileSettings is on screen and its dirty flag is false, the
\* editable preferences equal the Store's userPreferences.
C39_CleanFormMatchesStore ==
    (profileSettingsMounted /\ ~isDirty) => preferences = state.userPreferences

====
